---- MODULE Spec2Model ----
(***************************************************************************)
(* Verification model of the custom layer library (deepdna/nn/layers.py)   *)
(* and of the attention-attribution tool                                   *)
(* (deepdna/nn/tools/attention_attribution.py).                            *)
(*                                                                         *)
(* Every component of the library is an independent object; each one has   *)
(* its own variables (prefix ce_, cm_, im_, sm_, aw_, aa_, ...), its own   *)
(* initial condition and its own specification.  In the specification of   *)
(* one component the variables of the others stay at their idle values.    *)
(***************************************************************************)
EXTENDS Integers, Sequences, FiniteSets, TLC

VARIABLES
    \* ChunkedEmbeddingLayer
    ce_inputs,      \* the input tensor, a sequence of rows (leading axes up to `axis`)
    ce_chunk_size,  \* self.chunk_size: None or an integer >= 1
    ce_pc,          \* "start", "loop" (inside tf.while_loop), "done", "error"
    ce_flat,        \* the flattened input of call
    ce_i,           \* loop variable i of _batch_predict
    ce_result,      \* loop variable result of _batch_predict / result of call
    ce_calls,       \* the slices <<first index, slice>> self.layer was invoked on, in order
    ce_output,      \* the value returned by call
    \* ContiguousMask
    cm_inputs,      \* the batch of token sequences, shape (batch, seq_len)
    cm_mask_ratio,  \* self.mask_ratio, the numerator of a fraction over RatioDen
    cm_pc,          \* "start", "done"
    cm_mask_len,    \* mask_len of call
    cm_offsets,     \* mask_offsets of call, one per row
    cm_output,      \* the value returned by call
    \* InvertMask
    im_inputs,      \* the input values
    im_mask,        \* the incoming Keras mask: None or a boolean sequence
    im_pc,          \* "start", "done"
    im_output,      \* the value returned by call
    im_output_mask, \* the value returned by compute_mask
    \* SetMask
    sm_set_size,        \* self.set_size
    sm_mask_ratio,      \* self.mask_ratio, the numerator of a fraction over RatioDen
    sm_mask_embeddings, \* self.mask_embeddings, num_mask_tokens learned vectors
    sm_inputs,          \* a batch of sets of set_size vectors
    sm_output,          \* None, or the value returned by call(inputs)
    sm_masked,          \* None, or the value returned by masked_embeddings(inputs)
    \* AttributableMultiHeadAttention
    aw_alpha,       \* self._alpha: the weight of every head 0..num_heads-1
    aw_last,        \* the last operation on the weights and its arguments
    aw_prev,        \* self._alpha before the last operation
    \* TrimAndContiguousMask
    tm_min_len,     \* self.min_len
    tm_max_len,     \* self.max_len
    tm_mask_ratio,  \* self.mask_ratio, the numerator of a fraction over RatioDen
    tm_inputs,      \* the batch of token sequences, shape (batch, max_len)
    tm_pc,          \* "start", "done", "error"
    tm_lengths,     \* lengths of call, one per row
    tm_offsets,     \* offsets of call, one per row
    tm_mask_lengths, \* mask_lengths of call, one per row
    tm_mask_offsets, \* mask_offsets of call, one per row
    tm_output,      \* None, or the value returned by call
    \* SampleSet
    ss_max_set_size, \* self.max_set_size
    ss_embed_dim,   \* self.embed_dim
    ss_sizes,       \* the sizes input, one target size per batch row
    ss_pc,          \* "start", "done", "error"
    ss_n,           \* n of call
    ss_initial_set, \* initial_set of call
    ss_random_indices, \* random_indices of call
    ss_output,      \* the value returned by call
    \* token_attribution
    ta_store,           \* the attribution store: the "length" key and the records
    ta_pc,              \* "start", "records", "walk", "done", "error"
    ta_length,          \* length
    ta_token_ids,       \* token_ids: token name -> universal id
    ta_token_total_attrs, \* token_total_attrs: universal id -> summed score
    ta_top_node,        \* top_node: None or a universal id
    ta_top_node_value,  \* top_node_value: None (-inf) or a score
    ta_taus,            \* taus, numerators over TA_TauDen, one per layer
    ta_edges_by_layer,  \* edges_by_layer, one candidate edge set per layer
    ta_n,               \* the record index n of the main loop
    ta_state,           \* state: universal id -> NotAppear / Appear / Fixed
    ta_edges,           \* edges
    ta_vertices,        \* vertices
    ta_l,               \* the layer index l of the tree walk
    ta_todo,            \* the candidates of edges_by_layer[l] not yet visited
    ta_walked,          \* the values l of the tree walk has taken, in order
    ta_visits,          \* how often the walk has visited candidate e in layer l: <<l, e>> -> count
    \* compute_attention_attribution
    aa_steps,       \* integration_steps of the factory
    aa_alpha,       \* self._alpha of every attention layer of the stack
    aa_pc,          \* "ready", "sweep", "stack", "returned"
    aa_inputs,      \* inputs of the call
    aa_layer,       \* layer_index
    aa_head,        \* head
    aa_k,           \* how many values of the linspace the loop over alpha has taken
    aa_grads,       \* grads
    aa_i,           \* i
    aa_result,      \* result, the values written so far
    aa_passes,      \* the forward passes of the sweep of this call, in order
    aa_output,      \* None, or the value returned by the call
    aa_calls,       \* the number of calls that have returned
    \* RelativeMultiHeadAttention._skew
    sk_QEr,         \* one (batch, head) block of the argument QEr
    sk_pc,          \* "start", "done"
    sk_output       \* None, or the block of the value returned

ceVars == <<ce_inputs, ce_chunk_size, ce_pc, ce_flat, ce_i, ce_result, ce_calls, ce_output>>

cmVars == <<cm_inputs, cm_mask_ratio, cm_pc, cm_mask_len, cm_offsets, cm_output>>

imVars == <<im_inputs, im_mask, im_pc, im_output, im_output_mask>>

smVars == <<sm_set_size, sm_mask_ratio, sm_mask_embeddings, sm_inputs, sm_output, sm_masked>>

awVars == <<aw_alpha, aw_last, aw_prev>>

tmVars ==
    <<tm_min_len, tm_max_len, tm_mask_ratio, tm_inputs, tm_pc, tm_lengths, tm_offsets,
      tm_mask_lengths, tm_mask_offsets, tm_output>>

ssVars ==
    <<ss_max_set_size, ss_embed_dim, ss_sizes, ss_pc, ss_n, ss_initial_set,
      ss_random_indices, ss_output>>

taVars ==
    <<ta_store, ta_pc, ta_length, ta_token_ids, ta_token_total_attrs, ta_top_node,
      ta_top_node_value, ta_taus, ta_edges_by_layer, ta_n, ta_state, ta_edges,
      ta_vertices, ta_l, ta_todo, ta_walked, ta_visits>>

aaVars ==
    <<aa_steps, aa_alpha, aa_pc, aa_inputs, aa_layer, aa_head, aa_k, aa_grads, aa_i,
      aa_result, aa_passes, aa_output, aa_calls>>

skVars == <<sk_QEr, sk_pc, sk_output>>

vars == <<ceVars, cmVars, imVars, smVars, awVars, tmVars, ssVars, taVars, aaVars, skVars>>

\* the variables of the other components, for each component
ceOthers == <<cmVars, imVars, smVars, awVars, tmVars, ssVars, taVars, aaVars, skVars>>

cmOthers == <<ceVars, imVars, smVars, awVars, tmVars, ssVars, taVars, aaVars, skVars>>

imOthers == <<ceVars, cmVars, smVars, awVars, tmVars, ssVars, taVars, aaVars, skVars>>

smOthers == <<ceVars, cmVars, imVars, awVars, tmVars, ssVars, taVars, aaVars, skVars>>

awOthers == <<ceVars, cmVars, imVars, smVars, tmVars, ssVars, taVars, aaVars, skVars>>

tmOthers == <<ceVars, cmVars, imVars, smVars, awVars, ssVars, taVars, aaVars, skVars>>

ssOthers == <<ceVars, cmVars, imVars, smVars, awVars, tmVars, taVars, aaVars, skVars>>

taOthers == <<ceVars, cmVars, imVars, smVars, awVars, tmVars, ssVars, aaVars, skVars>>

aaOthers == <<ceVars, cmVars, imVars, smVars, awVars, tmVars, ssVars, taVars, skVars>>

skOthers == <<ceVars, cmVars, imVars, smVars, awVars, tmVars, ssVars, taVars, aaVars>>

\* An optional value (Python's None or a value v) is <<>> or <<v>>.
None == <<>>

Some(v) == <<v>>

Min(a, b) == IF a < b THEN a ELSE b

Max(a, b) == IF a < b THEN b ELSE a

\* np.sum / tf.reduce_sum of a sequence
RECURSIVE SumSeq(_)
SumSeq(sq) == IF sq = <<>> THEN 0 ELSE Head(sq) + SumSeq(Tail(sq))

\* np.max / tf.reduce_max of a non-empty sequence
RECURSIVE MaxSeq(_)
MaxSeq(sq) == IF Len(sq) = 1 THEN sq[1] ELSE Max(Head(sq), MaxSeq(Tail(sq)))

(***************************************************************************)
(* Python / TensorFlow basic slicing s[lo:hi] of a sequence, 0-based:      *)
(* a negative index counts from the end, every index is clamped to the     *)
(* length.  An omitted bound is passed as 0 (start) or Len(s) (end).       *)
(***************************************************************************)
PyIndex(n, x) ==
    IF x < 0 THEN Max(x + n, 0) ELSE Min(x, n)

PySlice(s, lo, hi) ==
    SubSeq(s, PyIndex(Len(s), lo) + 1, PyIndex(Len(s), hi))

(***************************************************************************)
(*                        ChunkedEmbeddingLayer                            *)
(***************************************************************************)
MaxBatch == 2

MaxAxisLen == 2

MaxChunk == 5

CE_Values == {0, 1}

\* tensors of shape (b, s): a sequence of b rows of s elements
CE_Tensors ==
    UNION {[1..b -> [1..s -> CE_Values]] : b \in 1..MaxBatch, s \in 1..MaxAxisLen}

\* tf.reshape(inputs, [-1] + right): row-major flattening of the leading axes
RECURSIVE Flatten(_)
Flatten(t) ==
    IF t = <<>> THEN <<>> ELSE Head(t) \o Flatten(Tail(t))

\* tf.reshape(result, left + shape(result)[1:]) for left = (b, s); tf.reshape
\* raises InvalidArgumentError when the element counts differ
CanUnflatten(r, b, s) == Len(r) = b * s

Unflatten(r, b, s) ==
    [x \in 1..b |-> SubSeq(r, (x - 1) * s + 1, x * s)]

Concat_swapped(result, part) == part \o result

\* tf.concat((result, part), axis=0)
Concat(result, part) == result \o part

\* the wrapped sub-layer on one element: deterministic, no state
SubLayerElem(x) == 2 * x + 1

\* self.layer(xs): the element-wise sub-layer on a batch of elements
Layer(xs) == [k \in 1..Len(xs) |-> SubLayerElem(xs[k])]

\* inputs[i:i+self.chunk_size]
ChunkSlice(flat, i, c) == PySlice(flat, i, i + c)

\* inputs[:self.chunk_size]
FirstSlice(flat, c) == PySlice(flat, 0, c)

LoopCond_strict(i, n) == i + 1 < n

\* lambda i,_: i < tf.shape(inputs)[0]
LoopCond(i, n) == i < n

\* call with chunk_size = None: flatten, one call of the sub-layer, reshape back
CE_WholeResult(t) ==
    Unflatten(Layer(Flatten(t)), Len(t), Len(t[1]))

CE_Init ==
    /\ ce_inputs \in CE_Tensors
    /\ ce_chunk_size \in {None} \cup {Some(c) : c \in 1..MaxChunk}
    /\ ce_pc = "start"
    /\ ce_flat = <<>>
    /\ ce_i = 0
    /\ ce_result = <<>>
    /\ ce_calls = <<>>
    /\ ce_output = <<>>

\* no ChunkedEmbeddingLayer in use
CE_Idle ==
    /\ ce_inputs = <<>>
    /\ ce_chunk_size = None
    /\ ce_pc = "idle"
    /\ ce_flat = <<>>
    /\ ce_i = 0
    /\ ce_result = <<>>
    /\ ce_calls = <<>>
    /\ ce_output = <<>>

CE_UsesWhole_always(n, chunk_size) == TRUE

\* lines 700-704: the sub-layer is applied to the whole flattened input when
\* chunk_size is None or tf.shape(inputs)[0] <= chunk_size
CE_UsesWhole(n, chunk_size) ==
    IF chunk_size = None THEN TRUE ELSE n <= chunk_size[1]

\* call, chunk_size None or N <= chunk_size: one call of the sub-layer
CE_CallWhole ==
    /\ ce_pc = "start"
    /\ LET flat == Flatten(ce_inputs)
       IN  /\ CE_UsesWhole(Len(flat), ce_chunk_size)
           /\ ce_flat' = flat
           /\ ce_result' = Layer(flat)
           /\ ce_calls' = <<<<0, flat>>>>
           /\ ce_output' = CE_WholeResult(ce_inputs)
    /\ ce_pc' = "done"
    /\ UNCHANGED <<ce_inputs, ce_chunk_size, ce_i>>
    /\ UNCHANGED ceOthers

\* call, N > chunk_size: _batch_predict up to the entry of tf.while_loop
CE_BatchPredictFirst ==
    /\ ce_pc = "start"
    /\ LET flat == Flatten(ce_inputs)
           part == FirstSlice(flat, ce_chunk_size[1])
       IN  /\ ~CE_UsesWhole(Len(flat), ce_chunk_size)
           /\ ce_flat' = flat
           /\ ce_i' = ce_chunk_size[1]
           /\ ce_result' = Layer(part)
           /\ ce_calls' = <<<<0, part>>>>
    /\ ce_pc' = "loop"
    /\ UNCHANGED <<ce_inputs, ce_chunk_size, ce_output>>
    /\ UNCHANGED ceOthers

\* one iteration of the tf.while_loop body
CE_LoopBody ==
    /\ ce_pc = "loop"
    /\ LoopCond(ce_i, Len(ce_flat))
    /\ LET part == ChunkSlice(ce_flat, ce_i, ce_chunk_size[1])
       IN  /\ ce_result' = Concat(ce_result, Layer(part))
           /\ ce_calls' = Append(ce_calls, <<ce_i, part>>)
    /\ ce_i' = ce_i + ce_chunk_size[1]
    /\ UNCHANGED <<ce_inputs, ce_chunk_size, ce_pc, ce_flat, ce_output>>
    /\ UNCHANGED ceOthers

\* the loop condition fails: _batch_predict returns, call reshapes the result
CE_LoopExit ==
    /\ ce_pc = "loop"
    /\ ~LoopCond(ce_i, Len(ce_flat))
    /\ IF CanUnflatten(ce_result, Len(ce_inputs), Len(ce_inputs[1]))
       THEN /\ ce_output' = Unflatten(ce_result, Len(ce_inputs), Len(ce_inputs[1]))
            /\ ce_pc' = "done"
       ELSE /\ ce_output' = ce_output
            /\ ce_pc' = "error"
    /\ UNCHANGED <<ce_inputs, ce_chunk_size, ce_flat, ce_i, ce_result, ce_calls>>
    /\ UNCHANGED ceOthers

NextChunk ==
    \/ CE_CallWhole
    \/ CE_BatchPredictFirst
    \/ CE_LoopBody
    \/ CE_LoopExit


CE_N == Len(ce_flat)

CE_Returned == ce_pc \in {"done", "error"}

CE_Chunked ==
    /\ ce_chunk_size # None
    /\ ce_pc \in {"loop", "done", "error"}
    /\ CE_N > ce_chunk_size[1]

\* C1: whatever chunk_size >= 1 is (smaller than, equal to, a divisor of, a
\* non-divisor of, or larger than the flattened length N), the value call returns
\* is, element for element and in the same order, the value it returns with
\* chunk_size = None (one call of the element-wise sub-layer on the whole input).
C1_ChunkedEqualsWhole ==
    CE_Returned => (ce_pc = "done" /\ ce_output = CE_WholeResult(ce_inputs))

\* a chunked call over a length that chunk_size does not divide has returned
C1_Witness ==
    /\ ce_pc = "done"
    /\ CE_Chunked
    /\ Len(ce_calls) >= 2
    /\ CE_N % ce_chunk_size[1] # 0

\* C2: for N > chunk_size = c the sub-layer is invoked on [0,c), [c,2c), ... one
\* after another in increasing index order; every slice holds 1..c elements, the
\* slices are disjoint and cover 0..N-1 exactly once when the loop has ended, and
\* the result is the concatenation of the sub-layer's results in that order.
C2_SlicesInOrder ==
    CE_Chunked =>
        LET c == ce_chunk_size[1]
        IN  /\ \A k \in 1..Len(ce_calls) :
                   LET lo == (k - 1) * c
                       hi == Min(k * c, CE_N)
                   IN  /\ lo < hi
                       /\ hi - lo <= c
                       /\ ce_calls[k] = <<lo, SubSeq(ce_flat, lo + 1, hi)>>
            /\ ce_result = Flatten([k \in 1..Len(ce_calls) |-> Layer(ce_calls[k][2])])
            /\ CE_Returned => (Len(ce_calls) * c >= CE_N)

\* a chunked call that needed at least three slices has returned
C2_Witness ==
    /\ ce_pc = "done"
    /\ CE_Chunked
    /\ Len(ce_calls) >= 3

(***************************************************************************)
(*                            ContiguousMask                               *)
(***************************************************************************)
MaxSeqLen == 3

\* mask ratios are the fractions k / RatioDen
RatioDen == 4

CM_Tokens == {0, 3}

CM_BatchSizes == {1, 2}

CM_Batches ==
    UNION {[1..b -> [1..l -> CM_Tokens]] : b \in CM_BatchSizes, l \in 1..MaxSeqLen}

\* tfcast(x, tf.int32), the library's typed alias of tf.cast, of the float
\* num / den: the fraction is cut off toward zero
tfcast_int32(num, den) ==
    IF num >= 0 THEN num \div den ELSE -((-num) \div den)

\* tf.math.ceil of the float num / den
Ceil(num, den) == -((-num) \div den)

CM_MaskLen_ceil(seq_len, ratio) == Ceil(seq_len * ratio, RatioDen)

\* mask_len = tfcast(tfcast(seq_len, tf.float32) * self.mask_ratio, tf.int32)
CM_MaskLen(seq_len, ratio) == tfcast_int32(seq_len * ratio, RatioDen)

\* tf.sequence_mask(length, maxlen): position j (0-based) is set iff j < length
SequenceMask(length, maxlen) == [j \in 1..maxlen |-> (j - 1) < length]

\* tfcast(mask, inputs.dtype): True is 1, False is 0
BoolToInt(b) == IF b THEN 1 ELSE 0

\* the mask of one row: logical_or(left, right), cast to the input's dtype
CM_RowMask(offset, mask_len, seq_len) ==
    LET left == SequenceMask(offset, seq_len)
        right == [j \in 1..seq_len |-> ~SequenceMask(offset + mask_len, seq_len)[j]]
    IN  [j \in 1..seq_len |-> BoolToInt(left[j] \/ right[j])]

CM_Init ==
    /\ cm_inputs \in CM_Batches
    /\ cm_mask_ratio \in 1..(RatioDen - 1)
    /\ cm_pc = "start"
    /\ cm_mask_len = 0
    /\ cm_offsets = <<>>
    /\ cm_output = <<>>

\* no ContiguousMask in use
CM_Idle ==
    /\ cm_inputs = <<>>
    /\ cm_mask_ratio = 0
    /\ cm_pc = "idle"
    /\ cm_mask_len = 0
    /\ cm_offsets = <<>>
    /\ cm_output = <<>>

\* ContiguousMask.call; tf.random.uniform draws one offset per row from
\* [0, seq_len - mask_len + 1)
CM_Call ==
    /\ cm_pc = "start"
    /\ LET batch_size == Len(cm_inputs)
           seq_len == Len(cm_inputs[1])
           mask_len == CM_MaskLen(seq_len, cm_mask_ratio)
       IN  \E mask_offsets \in [1..batch_size -> 0..(seq_len - mask_len)] :
               /\ cm_mask_len' = mask_len
               /\ cm_offsets' = mask_offsets
               /\ cm_output' =
                      [b \in 1..batch_size |->
                          [j \in 1..seq_len |->
                              CM_RowMask(mask_offsets[b], mask_len, seq_len)[j]
                                  * cm_inputs[b][j]]]
    /\ cm_pc' = "done"
    /\ UNCHANGED <<cm_inputs, cm_mask_ratio>>
    /\ UNCHANGED cmOthers

NextCMask ==
    \/ CM_Call

CM_SeqLen == Len(cm_inputs[1])

\* row b of the output is row b of the input with the n positions from s on set to 0
CM_SpanMasked(b, s, n) ==
    \A j \in 1..CM_SeqLen :
        cm_output[b][j] = IF s <= j - 1 /\ j - 1 < s + n THEN 0 ELSE cm_inputs[b][j]

CM_SameShape ==
    /\ Len(cm_output) = Len(cm_inputs)
    /\ \A b \in 1..Len(cm_inputs) : Len(cm_output[b]) = CM_SeqLen

\* C3 as stated: every output row is the input row except on one contiguous span
\* of exactly ceil(mask_ratio * L) positions inside [0, L), which are 0, and the
\* output has the shape of the input.
C3_Original ==
    cm_pc = "done" =>
        /\ CM_SameShape
        /\ \A b \in 1..Len(cm_inputs) :
               LET n == Ceil(CM_SeqLen * cm_mask_ratio, RatioDen)
               IN  \E s \in 0..(CM_SeqLen - n) : CM_SpanMasked(b, s, n)

\* C3 as amended: every output row is the input row except on one contiguous span
\* of exactly floor(mask_ratio * L) positions (possibly none), starting at the
\* row's drawn offset and lying inside [0, L), which are 0; same shape.
C3_FloorSpan ==
    cm_pc = "done" =>
        /\ CM_SameShape
        /\ cm_mask_len = (CM_SeqLen * cm_mask_ratio) \div RatioDen
        /\ \A b \in 1..Len(cm_inputs) :
               /\ 0 <= cm_offsets[b]
               /\ cm_offsets[b] + cm_mask_len <= CM_SeqLen
               /\ CM_SpanMasked(b, cm_offsets[b], cm_mask_len)

\* a call has masked a non-empty span of non-zero tokens where floor and ceil differ
C3_Witness ==
    /\ cm_pc = "done"
    /\ cm_mask_len >= 1
    /\ (CM_SeqLen * cm_mask_ratio) % RatioDen # 0
    /\ Len(cm_inputs) = 2
    /\ cm_offsets[1] # cm_offsets[2]
    /\ \A b \in 1..2 : \A j \in 1..CM_SeqLen : cm_inputs[b][j] # 0

(***************************************************************************)
(*                              InvertMask                                 *)
(***************************************************************************)
IM_Values == {-1, 0, 2}

IM_Inputs == UNION {[1..l -> IM_Values] : l \in 1..MaxSeqLen}

IM_ComputeMask_same(mask) == mask

\* compute_mask: None stays None, otherwise tf.logical_not(mask)
IM_ComputeMask(mask) ==
    IF mask = None
    THEN None
    ELSE Some([j \in 1..Len(mask[1]) |-> ~mask[1][j]])

\* call: inputs + 0
IM_CallValues(inputs) == [j \in 1..Len(inputs) |-> inputs[j] + 0]

IM_Init ==
    /\ im_inputs \in IM_Inputs
    /\ im_mask \in {None} \cup {Some(mk) : mk \in [1..Len(im_inputs) -> BOOLEAN]}
    /\ im_pc = "start"
    /\ im_output = <<>>
    /\ im_output_mask = None

\* no InvertMask in use
IM_Idle ==
    /\ im_inputs = <<>>
    /\ im_mask = None
    /\ im_pc = "idle"
    /\ im_output = <<>>
    /\ im_output_mask = None

\* the layer applied to inputs carrying im_mask: Keras runs call and compute_mask
IM_Apply ==
    /\ im_pc = "start"
    /\ im_output' = IM_CallValues(im_inputs)
    /\ im_output_mask' = IM_ComputeMask(im_mask)
    /\ im_pc' = "done"
    /\ UNCHANGED <<im_inputs, im_mask>>
    /\ UNCHANGED imOthers

NextInvert ==
    \/ IM_Apply

\* C4: the output values equal the input values exactly; the output mask is the
\* element-wise logical NOT of the incoming mask, and is absent (None) when no
\* mask is supplied.
C4_InvertMask ==
    im_pc = "done" =>
        /\ im_output = im_inputs
        /\ (im_mask = None) => (im_output_mask = None)
        /\ (im_mask # None) =>
               /\ im_output_mask # None
               /\ Len(im_output_mask[1]) = Len(im_mask[1])
               /\ \A j \in 1..Len(im_mask[1]) : im_output_mask[1][j] = ~im_mask[1][j]

\* the layer has run on a mask that holds both True and False
C4_Witness ==
    /\ im_pc = "done"
    /\ im_mask # None
    /\ \E j, k \in 1..Len(im_mask[1]) : im_mask[1][j] /\ ~im_mask[1][k]

(***************************************************************************)
(*                                SetMask                                  *)
(***************************************************************************)
MaxSetSize == 3

SM_BatchSizes == {1, 2}

\* embedding vectors are atoms: input vectors and learned mask vectors
SM_InputVectors == {1, 2}

SM_MaskVectors == {7, 8}

SM_NumMaskTokens_ceil(set_size, ratio) == Ceil(set_size * ratio, RatioDen)

\* num_mask_tokens: int(self.set_size * self.mask_ratio), cut off toward zero
SM_NumMaskTokens(set_size, ratio) ==
    IF set_size * ratio >= 0
    THEN (set_size * ratio) \div RatioDen
    ELSE -((-(set_size * ratio)) \div RatioDen)

\* inputs[:, :self.set_size - self.num_mask_tokens, :] on one batch row
SM_InputEmbeddings(row, set_size, m) == PySlice(row, 0, set_size - m)

\* inputs[:, -self.num_mask_tokens:, :] on one batch row
SM_MaskedRow(row, m) == PySlice(row, -m, Len(row))

SM_M == SM_NumMaskTokens(sm_set_size, sm_mask_ratio)

SM_Init ==
    /\ sm_set_size \in 1..MaxSetSize
    /\ sm_mask_ratio \in 0..RatioDen
    /\ sm_mask_embeddings \in [1..SM_NumMaskTokens(sm_set_size, sm_mask_ratio) -> SM_MaskVectors]
    /\ sm_inputs \in UNION {[1..b -> [1..sm_set_size -> SM_InputVectors]] : b \in SM_BatchSizes}
    /\ sm_output = None
    /\ sm_masked = None

\* no SetMask in use
SM_Idle ==
    /\ sm_set_size = 0
    /\ sm_mask_ratio = 0
    /\ sm_mask_embeddings = <<>>
    /\ sm_inputs = <<>>
    /\ sm_output = None
    /\ sm_masked = None

\* SetMask.call(inputs): tf.tile repeats the mask embeddings for every batch row
SM_Call ==
    /\ sm_inputs # <<>>
    /\ sm_output = None
    /\ sm_output' =
           Some([b \in 1..Len(sm_inputs) |->
                    SM_InputEmbeddings(sm_inputs[b], sm_set_size, SM_M) \o sm_mask_embeddings])
    /\ UNCHANGED <<sm_set_size, sm_mask_ratio, sm_mask_embeddings, sm_inputs, sm_masked>>
    /\ UNCHANGED smOthers

\* SetMask.masked_embeddings(inputs)
SM_MaskedEmbeddings ==
    /\ sm_inputs # <<>>
    /\ sm_masked = None
    /\ sm_masked' = Some([b \in 1..Len(sm_inputs) |-> SM_MaskedRow(sm_inputs[b], SM_M)])
    /\ UNCHANGED <<sm_set_size, sm_mask_ratio, sm_mask_embeddings, sm_inputs, sm_output>>
    /\ UNCHANGED smOthers

NextSetMask ==
    \/ SM_Call
    \/ SM_MaskedEmbeddings

\* floor(set_size * mask_ratio)
SM_Floor == (sm_set_size * sm_mask_ratio) \div RatioDen

\* C5: with m = floor(set_size * mask_ratio), the output of call has set_size
\* vectors per batch row; the first set_size - m are the input vectors, unchanged
\* and in order, the trailing m are the learned mask embeddings, the same for
\* every batch row.
C5_SetMaskCall ==
    sm_output # None =>
        /\ Len(sm_output[1]) = Len(sm_inputs)
        /\ \A b \in 1..Len(sm_inputs) :
               /\ Len(sm_output[1][b]) = sm_set_size
               /\ \A k \in 1..(sm_set_size - SM_Floor) :
                      sm_output[1][b][k] = sm_inputs[b][k]
               /\ \A k \in 1..SM_Floor :
                      sm_output[1][b][sm_set_size - SM_Floor + k] = sm_mask_embeddings[k]

\* call has replaced some but not all vectors of a batch of two different sets
C5_Witness ==
    /\ sm_output # None
    /\ 0 < SM_Floor
    /\ SM_Floor < sm_set_size
    /\ (sm_set_size * sm_mask_ratio) % RatioDen # 0
    /\ Len(sm_inputs) = 2
    /\ sm_inputs[1] # sm_inputs[2]

\* C6: masked_embeddings(inputs) returns exactly the trailing
\* m = floor(set_size * mask_ratio) vectors of inputs, for every m in 0..set_size;
\* for m = 0 it returns no vectors.
C6_MaskedEmbeddings ==
    sm_masked # None =>
        \A b \in 1..Len(sm_inputs) :
            sm_masked[1][b] = SubSeq(sm_inputs[b], sm_set_size - SM_Floor + 1, sm_set_size)

(***************************************************************************)
(*            AttributableMultiHeadAttention: per-head weights             *)
(***************************************************************************)
NumHeads == 3

\* weights are counted in halves: 0, 1, 2 stand for 0.0, 0.5, 1.0
AW_One == 2

AW_Values == {0, 1, 2}

AW_Heads == 0..(NumHeads - 1)

\* the lengths of the heads / alphas lists passed to set_attention_attribution_weights
AW_UpdateLens == {0, 1, 2}

\* tf.Variable([1.0]*num_heads)
AW_InitAlpha(num_heads) == [h \in 0..(num_heads - 1) |-> AW_One]

AW_ResetAlpha_zeros(num_heads) == [h \in 0..(num_heads - 1) |-> 0]

\* self._alpha.assign([1.0]*self._num_heads)
AW_ResetAlpha(num_heads) == [h \in 0..(num_heads - 1) |-> AW_One]

\* the updates (indices[k], updates[k]) written one after another, k = 1, 2, ...
RECURSIVE AW_ApplyUpdates(_, _, _)
AW_ApplyUpdates(alpha, indices, updates) ==
    IF indices = <<>>
    THEN alpha
    ELSE AW_ApplyUpdates([h \in DOMAIN alpha |->
                             IF h = Head(indices) THEN Head(updates) ELSE alpha[h]],
                         Tail(indices), Tail(updates))

AW_Orders(n) == {f \in [1..n -> 1..n] : \A j, k \in 1..n : j # k => f[j] # f[k]}

AW_ScatterNdUpdate_fresh(alpha, indices, updates) ==
    {AW_ApplyUpdates([h \in DOMAIN alpha |-> AW_One],
                     [k \in 1..Len(indices) |-> indices[f[k]]],
                     [k \in 1..Len(indices) |-> updates[f[k]]]) : f \in AW_Orders(Len(indices))}

\* self._alpha.scatter_nd_update(indices, updates): the values the variable can
\* hold afterwards.  The updates are written in an order that is not defined
\* (it matters for a repeated index only); the other elements keep their value.
AW_ScatterNdUpdate(alpha, indices, updates) ==
    {AW_ApplyUpdates(alpha,
                     [k \in 1..Len(indices) |-> indices[f[k]]],
                     [k \in 1..Len(indices) |-> updates[f[k]]]) : f \in AW_Orders(Len(indices))}

AW_Init ==
    /\ aw_alpha = AW_InitAlpha(NumHeads)
    /\ aw_last = [op |-> "init", heads |-> <<>>, alphas |-> <<>>]
    /\ aw_prev = AW_InitAlpha(NumHeads)

\* no attention layer in use
AW_Idle ==
    /\ aw_alpha = <<>>
    /\ aw_last = [op |-> "idle", heads |-> <<>>, alphas |-> <<>>]
    /\ aw_prev = <<>>

AW_Live == aw_last.op # "idle"

\* reset_attention_attribution_weights()
AW_Reset ==
    /\ AW_Live
    /\ aw_alpha' = AW_ResetAlpha(NumHeads)
    /\ aw_last' = [op |-> "reset", heads |-> <<>>, alphas |-> <<>>]
    /\ aw_prev' = aw_alpha
    /\ UNCHANGED awOthers

\* set_attention_attribution_weight(head, alpha): scatter_nd_update([[head]], [alpha])
AW_SetWeight ==
    /\ AW_Live
    /\ \E head \in AW_Heads, alpha \in AW_Values :
           /\ aw_alpha' \in AW_ScatterNdUpdate(aw_alpha, <<head>>, <<alpha>>)
           /\ aw_last' = [op |-> "set", heads |-> <<head>>, alphas |-> <<alpha>>]
    /\ aw_prev' = aw_alpha
    /\ UNCHANGED awOthers

\* set_attention_attribution_weights(heads, alphas):
\* scatter_nd_update(tf.reshape(heads, (-1, 1)), alphas)
AW_SetWeights ==
    /\ AW_Live
    /\ \E n \in AW_UpdateLens :
           \E heads \in [1..n -> AW_Heads], alphas \in [1..n -> AW_Values] :
               /\ aw_alpha' \in AW_ScatterNdUpdate(aw_alpha, heads, alphas)
               /\ aw_last' = [op |-> "sets", heads |-> heads, alphas |-> alphas]
    /\ aw_prev' = aw_alpha
    /\ UNCHANGED awOthers

NextAlpha ==
    \/ AW_Reset
    \/ AW_SetWeight
    \/ AW_SetWeights

\* C7: the per-head weight vector is all 1.0 after construction, and all 1.0
\* again after reset_attention_attribution_weights, whatever set calls came before.
C7_ResetAllOnes ==
    aw_last.op \in {"init", "reset"} =>
        /\ DOMAIN aw_alpha = AW_Heads
        /\ \A h \in AW_Heads : aw_alpha[h] = AW_One

\* a reset has just undone weights that differed from 1.0 on every head
C7_Witness ==
    /\ aw_last.op = "reset"
    /\ \A h \in AW_Heads : aw_prev[h] # AW_One

\* the weights after the single-head sets (heads[k], alphas[k]), k = 1, 2, ..., in turn
RECURSIVE AW_SingleSets(_, _, _)
AW_SingleSets(alpha, heads, alphas) ==
    IF heads = <<>>
    THEN alpha
    ELSE AW_SingleSets([alpha EXCEPT ![Head(heads)] = Head(alphas)], Tail(heads), Tail(alphas))

AW_Distinct(heads) ==
    \A j, k \in 1..Len(heads) : j # k => heads[j] # heads[k]

\* C8: set_attention_attribution_weight(head, a) sets the weight of exactly that
\* head to a and leaves every other head unchanged; set_attention_attribution_weights
\* (heads, alphas) with distinct heads sets each listed head to its alpha, leaves
\* every unlisted head unchanged, and equals the sequence of single-head sets.
C8_SetFrame ==
    /\ aw_last.op = "set" =>
           \A h \in AW_Heads :
               aw_alpha[h] = IF h = aw_last.heads[1] THEN aw_last.alphas[1] ELSE aw_prev[h]
    /\ (aw_last.op = "sets" /\ AW_Distinct(aw_last.heads)) =>
           /\ \A k \in 1..Len(aw_last.heads) : aw_alpha[aw_last.heads[k]] = aw_last.alphas[k]
           /\ \A h \in AW_Heads :
                  (\A k \in 1..Len(aw_last.heads) : aw_last.heads[k] # h) => aw_alpha[h] = aw_prev[h]
           /\ aw_alpha = AW_SingleSets(aw_prev, aw_last.heads, aw_last.alphas)

\* a two-head set has changed both listed heads and kept an unlisted weight
\* that is not 1.0
C8_Witness ==
    /\ aw_last.op = "sets"
    /\ Len(aw_last.heads) = 2
    /\ AW_Distinct(aw_last.heads)
    /\ \A k \in 1..2 : aw_prev[aw_last.heads[k]] # aw_last.alphas[k]
    /\ \E h \in AW_Heads :
           /\ \A k \in 1..2 : aw_last.heads[k] # h
           /\ aw_prev[h] # AW_One

(***************************************************************************)
(*                        TrimAndContiguousMask                            *)
(*                                                                         *)
(* A draw of tf.random.uniform((batch_size,)) is a fraction u / RatioDen   *)
(* with u in 0..RatioDen-1.                                                *)
(***************************************************************************)
TM_Tokens == {2, 3}

TM_BatchSizes == {1}

\* offsets = tfcast(uniform * (max_offsets + 1.0), tf.int32)
TM_Offset(u, max_offset) == tfcast_int32(u * (max_offset + 1), RatioDen)

\* mask_lengths = tfcast(ceil(uniform * float(lengths) * mask_ratio), tf.int32)
TM_MaskLength(u, length, ratio) == Ceil(u * length * ratio, RatioDen * RatioDen)

\* trim_mask of one row: not sequence_mask(offsets) and sequence_mask(offsets + lengths)
TM_TrimMask(offset, length, max_len) ==
    [j \in 1..max_len |->
        ~SequenceMask(offset, max_len)[j] /\ SequenceMask(offset + length, max_len)[j]]

\* tf.sequence_mask(lengths) without maxlen: as wide as the largest length
TM_SequenceMaskAuto(lengths) ==
    [b \in 1..Len(lengths) |->
        SequenceMask(lengths[b], MaxSeq([k \in 1..Len(lengths) |-> Max(lengths[k], 0)]))]

\* bool_tensor + int32_tensor: the addition is defined for operands of one
\* numeric dtype; a bool operand is rejected (None)
TM_AddBoolInt(mask, ints) == None

\* tf.logical_not(x, name): None when x is not a tensor
TM_LogicalNot(x) ==
    IF x = None
    THEN None
    ELSE Some([b \in 1..Len(x[1]) |-> [j \in 1..Len(x[1][b]) |-> ~x[1][b][j]]])

\* lines 170-171: right = tf.logical_not(tf.sequence_mask(offsets + mask_offsets)
\*                                      + mask_lengths, self.max_len)
TM_Right(offsets, mask_offsets, mask_lengths) ==
    TM_LogicalNot(
        TM_AddBoolInt(
            TM_SequenceMaskAuto([b \in 1..Len(offsets) |-> offsets[b] + mask_offsets[b]]),
            mask_lengths))

\* lines 172-182 for one row: the masked, padded row
TM_ResultRow(inputs, trim_mask, left, right) ==
    [j \in 1..Len(inputs) |->
        BoolToInt(trim_mask[j] /\ (left[j] \/ right[j])) * inputs[j]
            + 1 * BoolToInt(~trim_mask[j])]

TM_Init ==
    /\ tm_max_len \in 1..MaxSeqLen
    /\ tm_min_len \in 1..tm_max_len
    /\ tm_mask_ratio \in 1..(RatioDen - 1)
    /\ \E batch_size \in TM_BatchSizes :
           tm_inputs \in [1..batch_size -> [1..tm_max_len -> TM_Tokens]]
    /\ tm_pc = "start"
    /\ tm_lengths = <<>>
    /\ tm_offsets = <<>>
    /\ tm_mask_lengths = <<>>
    /\ tm_mask_offsets = <<>>
    /\ tm_output = None

\* no TrimAndContiguousMask in use
TM_Idle ==
    /\ tm_max_len = 0
    /\ tm_min_len = 0
    /\ tm_mask_ratio = 0
    /\ tm_inputs = <<>>
    /\ tm_pc = "idle"
    /\ tm_lengths = <<>>
    /\ tm_offsets = <<>>
    /\ tm_mask_lengths = <<>>
    /\ tm_mask_offsets = <<>>
    /\ tm_output = None

\* TrimAndContiguousMask.call: the draws, the masks, and the result unless an
\* operation raises
TM_Call ==
    /\ tm_pc = "start"
    /\ LET rows == 1..Len(tm_inputs)
           draws == [rows -> 0..(RatioDen - 1)]
       IN  \E lengths \in [rows -> tm_min_len..tm_max_len], u1 \in draws, u2 \in draws,
              u3 \in draws :
               LET offsets == [b \in rows |-> TM_Offset(u1[b], tm_max_len - lengths[b])]
                   trim_mask == [b \in rows |->
                                    TM_TrimMask(offsets[b], lengths[b], tm_max_len)]
                   mask_lengths == [b \in rows |->
                                       TM_MaskLength(u2[b], lengths[b], tm_mask_ratio)]
                   mask_offsets == [b \in rows |->
                                       TM_Offset(u3[b], lengths[b] - mask_lengths[b])]
                   left == [b \in rows |->
                               SequenceMask(offsets[b] + mask_offsets[b], tm_max_len)]
                   right == TM_Right(offsets, mask_offsets, mask_lengths)
               IN  /\ tm_lengths' = lengths
                   /\ tm_offsets' = offsets
                   /\ tm_mask_lengths' = mask_lengths
                   /\ tm_mask_offsets' = mask_offsets
                   /\ IF right = None
                      THEN /\ tm_pc' = "error"
                           /\ UNCHANGED tm_output
                      ELSE /\ tm_pc' = "done"
                           /\ tm_output' =
                                  Some([b \in rows |->
                                      TM_ResultRow(tm_inputs[b], trim_mask[b], left[b],
                                                   right[1][b])])
    /\ UNCHANGED <<tm_min_len, tm_max_len, tm_mask_ratio, tm_inputs>>
    /\ UNCHANGED tmOthers

NextTrimMask == TM_Call

(***************************************************************************)
(*                              SampleSet                                  *)
(*                                                                         *)
(* The values drawn by tf.random.normal are named by their position        *)
(* <<batch row, slot, component>>; the rows drawn by tf.random.uniform are *)
(* chosen from SS_NoiseValues.                                             *)
(***************************************************************************)
SS_BatchSizes == {1, 2}

SS_EmbedDims == {1, 2}

SS_NoiseValues == {0, 1, 2}

\* n = tf.squeeze(tfcast(sizes[0], tf.int32)): the target size of the first row
SS_N(sizes) == sizes[1]

\* tf.random.normal((batch_size, max_set_size, embed_dim), mean, stddev)
SS_InitialSet(batch_size, max_set_size, embed_dim) ==
    [b \in 1..batch_size |->
        [k \in 1..max_set_size |-> [d \in 1..embed_dim |-> <<b - 1, k - 1, d - 1>>]]]

\* the index (1-based) of the largest value of row among the indices in free,
\* the lowest index among equal values
SS_Best(row, free) ==
    CHOOSE i \in free :
        \A k \in free \ {i} : row[i] > row[k] \/ (row[i] = row[k] /\ i < k)

\* tf.nn.top_k(row, n)[1]: the (0-based) indices of the n largest values, the
\* largest first
RECURSIVE SS_TopK(_, _, _)
SS_TopK(row, n, free) ==
    IF n = 0
    THEN <<>>
    ELSE <<SS_Best(row, free) - 1>> \o SS_TopK(row, n - 1, free \ {SS_Best(row, free)})

\* random_indices of a batch of noise rows
SS_RandomIndices(noise, n) ==
    [b \in 1..Len(noise) |-> SS_TopK(noise[b], n, 1..Len(noise[b]))]

\* tf.repeat(tf.range(batch_size), n)
SS_Repeat(batch_size, n) == [i \in 1..(batch_size * n) |-> (i - 1) \div n]

\* tf.reshape(flat, (-1, n)) for n >= 1
SS_Reshape(flat, n) ==
    [r \in 1..(Len(flat) \div n) |-> SubSeq(flat, (r - 1) * n + 1, r * n)]

\* tf.reshape of the empty tensor to (-1, 0): the kernel infers 1 for the
\* missing dimension, or rejects the shape ("cannot infer the missing input
\* size for an empty tensor"), depending on its version
SS_ReshapeEmpty == {Some(<<<<>>>>), None}

\* batch_indices: the outcomes of the reshape, None for a rejected shape
SS_BatchIndices(batch_size, n) ==
    IF n = 0
    THEN SS_ReshapeEmpty
    ELSE {Some(SS_Reshape(SS_Repeat(batch_size, n), n))}

\* tf.stack([a, b], axis=2) is defined for tensors of the same shape
SS_SameShape(a, b) ==
    /\ Len(a) = Len(b)
    /\ \A r \in 1..Len(a) : Len(a[r]) = Len(b[r])

SS_Stack(a, b) == [r \in 1..Len(a) |-> [k \in 1..Len(a[r]) |-> <<a[r][k], b[r][k]>>]]

\* tf.gather_nd(params, indices)
SS_GatherNd(params, indices) ==
    [r \in 1..Len(indices) |->
        [k \in 1..Len(indices[r]) |->
            params[indices[r][k][1] + 1][indices[r][k][2] + 1]]]

SS_Init ==
    /\ ss_max_set_size \in 1..MaxSetSize
    /\ ss_embed_dim \in SS_EmbedDims
    /\ \E batch_size \in SS_BatchSizes :
           ss_sizes \in [1..batch_size -> 0..(ss_max_set_size + 1)]
    /\ ss_pc = "start"
    /\ ss_n = 0
    /\ ss_initial_set = <<>>
    /\ ss_random_indices = <<>>
    /\ ss_output = None

\* no SampleSet layer is in use
SS_Idle ==
    /\ ss_max_set_size = 0
    /\ ss_embed_dim = 0
    /\ ss_sizes = <<>>
    /\ ss_pc = "idle"
    /\ ss_n = 0
    /\ ss_initial_set = <<>>
    /\ ss_random_indices = <<>>
    /\ ss_output = None

\* call(sizes); tf.nn.top_k rejects n greater than the number of columns
SS_Call ==
    /\ ss_pc = "start"
    /\ LET batch_size == Len(ss_sizes)
           n == SS_N(ss_sizes)
           initial_set == SS_InitialSet(batch_size, ss_max_set_size, ss_embed_dim)
       IN  /\ ss_n' = n
           /\ ss_initial_set' = initial_set
           /\ IF n > ss_max_set_size
              THEN /\ ss_pc' = "error"
                   /\ UNCHANGED <<ss_random_indices, ss_output>>
              ELSE \E noise \in [1..batch_size -> [1..ss_max_set_size -> SS_NoiseValues]],
                      batch_indices \in SS_BatchIndices(batch_size, n) :
                       LET random_indices == SS_RandomIndices(noise, n)
                       IN  /\ ss_random_indices' = random_indices
                           /\ IF batch_indices = None
                                 \/ ~SS_SameShape(batch_indices[1], random_indices)
                              THEN /\ ss_pc' = "error"
                                   /\ UNCHANGED ss_output
                              ELSE /\ ss_pc' = "done"
                                   /\ ss_output' =
                                          Some(SS_GatherNd(initial_set,
                                                           SS_Stack(batch_indices[1],
                                                                    random_indices)))
    /\ UNCHANGED <<ss_max_set_size, ss_embed_dim, ss_sizes>>
    /\ UNCHANGED ssOthers

NextSampleSet == SS_Call

(***************************************************************************)
(*                          token_attribution                              *)
(*                                                                         *)
(* A store holds, for every record n, the token names ("<n>_metadata") and *)
(* the attribution tensor ("<n>_attrs" reshaped by "<n>_attr_shape"):      *)
(* attrs[l][h][p][q] for layer l, head h and positions p, q, position 1    *)
(* being the class token.  "<n>_x" is never read.                          *)
(***************************************************************************)
NumLayers == 3

\* tau = 0.4, as TA_TauNum / TA_TauDen
TA_TauNum == 2

TA_TauDen == 5

\* the token names (metadata) of a record
TA_RecordNames == <<"a", "b", "c">>

NumTokens == Len(TA_RecordNames)

\* a layer has no non-zero token-to-token attribution, or exactly one, at <<i, j>>
TA_HotChoices == {None} \cup {Some(<<i, j>>) : i, j \in 1..NumTokens}

\* the tensor whose layer l has attribution 1 in every head at the hot cell of
\* the layer, attribution 1 in head 1 on the class-token row and column, and 0
\* elsewhere
TA_Tensor(hots) ==
    [l \in 1..NumLayers |->
        [h \in 1..NumHeads |->
            [p \in 1..(NumTokens + 1) |->
                [q \in 1..(NumTokens + 1) |->
                    IF p = 1 \/ q = 1
                    THEN (IF h = 1 THEN 1 ELSE 0)
                    ELSE IF hots[l] = Some(<<p - 1, q - 1>>) THEN 1 ELSE 0]]]]

TA_Stores ==
    {[has_length |-> hl,
      records |-> <<[names |-> TA_RecordNames, attrs |-> TA_Tensor(hots)]>>] :
        hl \in BOOLEAN, hots \in [1..NumLayers -> TA_HotChoices]}

\* the largest number of records of a store of the second family
MaxRecords == 2

\* the token names of a record of the second family: the same name may stand
\* at different indices in different records
TA_NameChoices == {<<"a", "b">>, <<"b", "a">>, <<"b", "c">>}

TA_PairValues == {0, 1, 2}

\* a tensor of NumLayers layers and one head over two tokens: layer 0 holds x
\* at (0, 1) and y at (1, 0), the other layers hold no token-to-token
\* attribution; the class-token row and column hold 1
TA_PairTensor(x, y) ==
    [l \in 1..NumLayers |->
        <<[p \in 1..3 |->
              [q \in 1..3 |->
                  IF p = 1 \/ q = 1 THEN 1
                  ELSE IF l = 1 /\ p = 2 /\ q = 3 THEN x
                  ELSE IF l = 1 /\ p = 3 /\ q = 2 THEN y
                  ELSE 0]]>>]

TA_PairRecords ==
    {[names |-> nm, attrs |-> TA_PairTensor(x, y)] :
        nm \in TA_NameChoices, x \in TA_PairValues, y \in TA_PairValues}

\* the stores of 0..MaxRecords records, with or without the "length" key
TA_RecordStores ==
    {[has_length |-> hl, records |-> recs] :
        hl \in BOOLEAN,
        recs \in UNION {[1..k -> TA_PairRecords] : k \in 0..MaxRecords}}

\* the token names of a record of the third family
TA_LayerNames == {<<"a", "b">>, <<"b", "a">>, <<"a", "a">>}

\* the head-summed token-to-token attribution of one layer of a record of the
\* third family: no attribution; attributions whose smaller ratio to the layer
\* maximum is 1/3, between 0 and tau; an attribution of a token to itself next
\* to one to the other token
TA_LayerMatrices ==
    {<<<<0, 0>>, <<0, 0>>>>,
     <<<<0, 1>>, <<3, 0>>>>,
     <<<<2, 3>>, <<0, 0>>>>}

\* the tensor of NumLayers layers and one head over two tokens whose layer l
\* holds ms[l]; the class-token row and column hold 1
TA_LayerTensor(ms) ==
    [l \in 1..NumLayers |->
        <<[p \in 1..3 |->
              [q \in 1..3 |-> IF p = 1 \/ q = 1 THEN 1 ELSE ms[l][p - 1][q - 1]]]>>]

\* the records of the third family: the first layer, the final layer and the
\* layers between them (all alike) hold any of the matrices
TA_LayerRecords ==
    {[names |-> nm,
      attrs |-> TA_LayerTensor([l \in 1..NumLayers |->
                    IF l = 1 THEN first ELSE IF l = NumLayers THEN last ELSE mid])] :
        nm \in TA_LayerNames, first \in TA_LayerMatrices, mid \in TA_LayerMatrices,
        last \in TA_LayerMatrices}

\* the stores of two records without the "length" key
TA_LayerStores ==
    {[has_length |-> FALSE, records |-> <<r1, r2>>] : r1, r2 \in TA_LayerRecords}

NotAppear == "NotAppear"

Appear == "Appear"

Fixed == "Fixed"

\* the class-token identifier
TA_Cls == -1

\* np.argmax: the first index (0-based) of the largest element
ArgMax(sq) == (CHOOSE i \in 1..Len(sq) : sq[i] = MaxSeq(sq) /\ \A k \in 1..(i - 1) : sq[k] # sq[i]) - 1

\* len(store): four keys per record, and the "length" key when present
TA_StoreLen(store) == 4 * Len(store.records) + (IF store.has_length THEN 1 ELSE 0)

\* store["length"] is the value as the store holds it, a byte string like every
\* value of the store (lines 91, 107 and 109 unpickle or np.frombuffer them);
\* len(store)//4 is an integer
TA_LengthIsInt(store) == ~store.has_length

\* length = store["length"] if "length" in store else len(store)//4, when it is
\* an integer
TA_Length(store) == TA_StoreLen(store) \div 4

\* line 100 reads store["0_attr_shape"]
TA_HasRecord0(store) == Len(store.records) >= 1

\* lines 92-94: the names of one record get the next free ids, in order
RECURSIVE TA_AddNames(_, _)
TA_AddNames(ids, names) ==
    IF names = <<>>
    THEN ids
    ELSE TA_AddNames(IF Head(names) \in DOMAIN ids
                     THEN ids
                     ELSE ids @@ (Head(names) :> Cardinality(DOMAIN ids)),
                     Tail(names))

\* lines 89-94: token_ids over the records 0..length-1
RECURSIVE TA_TokenIdsOf(_, _, _, _)
TA_TokenIdsOf(ids, store, n, length) ==
    IF n >= length
    THEN ids
    ELSE TA_TokenIdsOf(TA_AddNames(ids, store.records[n + 1].names), store, n + 1, length)

TA_Taus_uniform(store) == [l \in 1..Len(store.records[1].attrs) |-> TA_TauNum]

\* taus = [tau]*(shape[0] - 1) + [0.0] for the shape of record 0
TA_Taus(store) ==
    [l \in 1..Len(store.records[1].attrs) |->
        IF l < Len(store.records[1].attrs) THEN TA_TauNum ELSE 0]

\* np.sum(attrs, axis=1)[:,1:,1:]: summed over the heads, class token stripped
TA_AttrsByLayer(attrs) ==
    [l \in 1..Len(attrs) |->
        [i \in 1..(Len(attrs[l][1]) - 1) |->
            [j \in 1..(Len(attrs[l][1]) - 1) |->
                SumSeq([h \in 1..Len(attrs[l]) |-> attrs[l][h][i + 1][j + 1]])]]]

TA_ComputeTokenAttributions_self(by_layer) ==
    [i \in 1..Len(by_layer[1]) |->
        SumSeq([l \in 1..Len(by_layer) |-> SumSeq(by_layer[l][i])])]

\* _compute_token_attributions
TA_ComputeTokenAttributions(by_layer) ==
    LET num_tokens == Len(by_layer[1])
    IN  [i \in 1..num_tokens |->
            SumSeq([l \in 1..Len(by_layer) |->
                SumSeq([j \in 1..num_tokens |-> IF j = i THEN 0 ELSE by_layer[l][i][j]])])]

\* np.max of one layer's matrix
TA_LayerMax(a) == MaxSeq([i \in 1..Len(a) |-> MaxSeq(a[i])])

\* nan > tau: a comparison with nan is False
TA_NanAbove_true(tau_num) == TRUE

TA_NanAbove(tau_num) == FALSE

\* a_ij/max_attr_l > tau in floating point (numpy arrays: a division by zero
\* raises nothing): 0/0 is nan, a/0 is +inf or -inf by the sign of a
TA_AboveTau(a, mx, tau_num) ==
    IF mx = 0
    THEN (IF a = 0 THEN TA_NanAbove(tau_num) ELSE a > 0)
    ELSE IF mx > 0 THEN a * TA_TauDen > tau_num * mx
    ELSE a * TA_TauDen < tau_num * mx

\* lines 127-132: the candidate edges one record adds to one layer
TA_RecordEdges(a, tau_num, names, ids) ==
    {<<ids[names[i]], ids[names[j]]>> :
        <<i, j>> \in {c \in (1..Len(a)) \X (1..Len(a)) :
                          TA_AboveTau(a[c[1]][c[2]], TA_LayerMax(a), tau_num)}}

\* lines 116-117: token_total_attrs[token_ids[token_names[i]]] += value, i = 0, 1, ...
RECURSIVE TA_AddTotals(_, _, _, _, _)
TA_AddTotals(totals, token_attrs, names, ids, i) ==
    IF i > Len(token_attrs)
    THEN totals
    ELSE LET id == ids[names[i]]
             old == IF id \in DOMAIN totals THEN totals[id] ELSE 0
         IN  TA_AddTotals([k \in DOMAIN totals \cup {id} |->
                              IF k = id THEN old + token_attrs[i] ELSE totals[k]],
                          token_attrs, names, ids, i + 1)

TA_Exceeds_always(max_value, top_value) == TRUE

TA_Exceeds_geq(max_value, top_value) ==
    IF top_value = None THEN TRUE ELSE max_value >= top_value[1]

\* max_value > top_node_value, where None stands for -inf
TA_Exceeds(max_value, top_value) ==
    IF top_value = None THEN TRUE ELSE max_value > top_value[1]

TA_FirstIf_any(state, i, j) == state[i] = Appear

\* line 147
TA_FirstIf(state, i, j) == state[i] = Appear /\ state[j] = NotAppear

TA_SecondIf_any(state, i, j) == state[i] = Fixed

\* line 152
TA_SecondIf(state, i, j) == state[i] = Fixed /\ state[j] = NotAppear

TA_InjectCond_appear(st) == st = Appear

\* line 160
TA_InjectCond(st) == st \in {Appear, Fixed}

\* the locals of token_attribution before the call
TA_Fresh ==
    /\ ta_pc = "start"
    /\ ta_length = 0
    /\ ta_token_ids = <<>>
    /\ ta_token_total_attrs = <<>>
    /\ ta_top_node = None
    /\ ta_top_node_value = None
    /\ ta_taus = <<>>
    /\ ta_edges_by_layer = <<>>
    /\ ta_n = 0
    /\ ta_state = <<>>
    /\ ta_edges = {}
    /\ ta_vertices = {}
    /\ ta_l = 0
    /\ ta_todo = {}
    /\ ta_walked = <<>>
    /\ ta_visits = <<>>

TA_Init == ta_store \in TA_Stores /\ TA_Fresh

TA_InitRecords == ta_store \in TA_RecordStores /\ TA_Fresh

TA_InitLayers == ta_store \in TA_LayerStores /\ TA_Fresh

\* token_attribution is not running
TA_Idle ==
    /\ ta_store = <<>>
    /\ ta_pc = "idle"
    /\ ta_length = 0
    /\ ta_token_ids = <<>>
    /\ ta_token_total_attrs = <<>>
    /\ ta_top_node = None
    /\ ta_top_node_value = None
    /\ ta_taus = <<>>
    /\ ta_edges_by_layer = <<>>
    /\ ta_n = 0
    /\ ta_state = <<>>
    /\ ta_edges = {}
    /\ ta_vertices = {}
    /\ ta_l = 0
    /\ ta_todo = {}
    /\ ta_walked = <<>>
    /\ ta_visits = <<>>

\* lines 86-101: open the store, read length, number the token names, set up
\* the accumulators.  range(length) at line 90 raises TypeError for a length
\* that is not an integer, store["0_attr_shape"] at line 100 raises KeyError
\* in a store without record 0.
TA_Open ==
    /\ ta_pc = "start"
    /\ IF ~TA_LengthIsInt(ta_store) \/ ~TA_HasRecord0(ta_store)
       THEN /\ ta_pc' = "error"
            /\ UNCHANGED <<ta_length, ta_token_ids, ta_taus, ta_edges_by_layer, ta_n>>
       ELSE /\ ta_length' = TA_Length(ta_store)
            /\ ta_token_ids' = TA_TokenIdsOf(<<>>, ta_store, 0, TA_Length(ta_store))
            /\ ta_taus' = TA_Taus(ta_store)
            /\ ta_edges_by_layer' = [l \in 1..Len(TA_Taus(ta_store)) |-> {}]
            /\ ta_n' = 0
            /\ ta_pc' = "records"
    /\ UNCHANGED <<ta_store, ta_token_total_attrs, ta_top_node, ta_top_node_value,
                   ta_state, ta_edges, ta_vertices, ta_l, ta_todo, ta_walked, ta_visits>>
    /\ UNCHANGED taOthers

\* lines 104-134: one iteration of the loop over the records
TA_Record ==
    /\ ta_pc = "records"
    /\ ta_n < ta_length
    /\ LET rec == ta_store.records[ta_n + 1]
           token_names == rec.names
           attrs_by_layer == TA_AttrsByLayer(rec.attrs)
           token_attrs == TA_ComputeTokenAttributions(attrs_by_layer)
           max_value == MaxSeq(token_attrs)
       IN  /\ ta_token_total_attrs' =
                  TA_AddTotals(ta_token_total_attrs, token_attrs, token_names, ta_token_ids, 1)
           /\ IF TA_Exceeds(max_value, ta_top_node_value)
              THEN /\ ta_top_node' = Some(ta_token_ids[token_names[ArgMax(token_attrs) + 1]])
                   /\ ta_top_node_value' = Some(max_value)
              ELSE UNCHANGED <<ta_top_node, ta_top_node_value>>
           /\ ta_edges_by_layer' =
                  [l \in 1..Len(ta_taus) |->
                      ta_edges_by_layer[l] \cup
                          TA_RecordEdges(attrs_by_layer[l], ta_taus[l], token_names, ta_token_ids)]
    /\ ta_n' = ta_n + 1
    /\ UNCHANGED <<ta_store, ta_pc, ta_length, ta_token_ids, ta_taus, ta_state, ta_edges,
                   ta_vertices, ta_l, ta_todo, ta_walked, ta_visits>>
    /\ UNCHANGED taOthers

TA_FirstWalkLayer_final(taus) == Len(taus) - 1

\* line 143: range(len(taus) - 2, -1, -1) starts at len(taus) - 2
TA_FirstWalkLayer(taus) == Len(taus) - 2

\* lines 136-143: the loop over the records has ended; the walk starts at its
\* first layer (layers are 0-based; below 0 there is no layer to walk)
TA_StartWalk ==
    /\ ta_pc = "records"
    /\ ~(ta_n < ta_length)
    /\ IF ta_top_node = None
       THEN /\ ta_pc' = "error"
            /\ UNCHANGED <<ta_state, ta_edges, ta_vertices, ta_l, ta_todo, ta_walked>>
       ELSE /\ ta_state' = [id \in {ta_token_ids[nm] : nm \in DOMAIN ta_token_ids} |->
                               IF id = ta_top_node[1] THEN Appear ELSE NotAppear]
            /\ ta_edges' = {}
            /\ ta_vertices' = {ta_top_node[1]}
            /\ ta_l' = TA_FirstWalkLayer(ta_taus)
            /\ ta_todo' = IF TA_FirstWalkLayer(ta_taus) >= 0
                          THEN ta_edges_by_layer[TA_FirstWalkLayer(ta_taus) + 1]
                          ELSE {}
            /\ ta_walked' = IF TA_FirstWalkLayer(ta_taus) >= 0
                            THEN <<TA_FirstWalkLayer(ta_taus)>>
                            ELSE <<>>
            /\ ta_pc' = "walk"
    /\ UNCHANGED <<ta_store, ta_length, ta_token_ids, ta_token_total_attrs, ta_top_node,
                   ta_top_node_value, ta_taus, ta_edges_by_layer, ta_n, ta_visits>>
    /\ UNCHANGED taOthers

\* one more visit of candidate e in layer l
TA_CountVisit(visits, l, e) ==
    [x \in DOMAIN visits \cup {<<l, e>>} |->
        IF x = <<l, e>>
        THEN (IF x \in DOMAIN visits THEN visits[x] ELSE 0) + 1
        ELSE visits[x]]

\* lines 144-155: one candidate (i, j) of edges_by_layer[l]; a set is iterated
\* in an order the program does not choose
TA_WalkEdge ==
    /\ ta_pc = "walk"
    /\ \E e \in ta_todo :
           LET i == e[1]
               j == e[2]
               first == i # j /\ TA_FirstIf(ta_state, i, j)
               state1 == IF first
                         THEN [ta_state EXCEPT ![i] = Fixed, ![j] = Appear]
                         ELSE ta_state
               second == i # j /\ TA_SecondIf(state1, i, j)
               state2 == IF second THEN [state1 EXCEPT ![j] = Appear] ELSE state1
           IN  /\ ta_state' = state2
               /\ ta_edges' = IF first \/ second THEN ta_edges \cup {<<i, j>>} ELSE ta_edges
               /\ ta_vertices' = IF first \/ second THEN ta_vertices \cup {j} ELSE ta_vertices
               /\ ta_todo' = ta_todo \ {e}
               /\ ta_visits' = TA_CountVisit(ta_visits, ta_l, e)
    /\ UNCHANGED <<ta_store, ta_pc, ta_length, ta_token_ids, ta_token_total_attrs,
                   ta_top_node, ta_top_node_value, ta_taus, ta_edges_by_layer, ta_n, ta_l,
                   ta_walked>>
    /\ UNCHANGED taOthers

\* line 143: the candidates of layer l are exhausted, the walk goes on with l - 1
TA_NextLayer ==
    /\ ta_pc = "walk"
    /\ ta_todo = {}
    /\ ta_l > 0
    /\ ta_l' = ta_l - 1
    /\ ta_todo' = ta_edges_by_layer[ta_l]
    /\ ta_walked' = Append(ta_walked, ta_l - 1)
    /\ UNCHANGED <<ta_store, ta_pc, ta_length, ta_token_ids, ta_token_total_attrs,
                   ta_top_node, ta_top_node_value, ta_taus, ta_edges_by_layer, ta_n,
                   ta_state, ta_edges, ta_vertices, ta_visits>>
    /\ UNCHANGED taOthers

\* lines 157-174: the walk has ended; the class token is injected and the
\* result returned
TA_Inject ==
    /\ ta_pc = "walk"
    /\ ta_todo = {}
    /\ ~(ta_l > 0)
    /\ ta_vertices' = ta_vertices \cup {TA_Cls}
    /\ ta_edges' = ta_edges \cup
           {<<TA_Cls, j>> : j \in {k \in 0..(Cardinality(DOMAIN ta_state) - 1) :
                                      TA_InjectCond(ta_state[k])}}
    /\ ta_pc' = "done"
    /\ UNCHANGED <<ta_store, ta_length, ta_token_ids, ta_token_total_attrs, ta_top_node,
                   ta_top_node_value, ta_taus, ta_edges_by_layer, ta_n, ta_state, ta_l,
                   ta_todo, ta_walked, ta_visits>>
    /\ UNCHANGED taOthers

NextTokenAttribution ==
    \/ TA_Open
    \/ TA_Record
    \/ TA_StartWalk
    \/ TA_WalkEdge
    \/ TA_NextLayer
    \/ TA_Inject

(***************************************************************************)
(*        attention_attribution_factory / compute_attention_attribution    *)
(*                                                                         *)
(* transformer_stack has NumLayers attention layers of NumHeads heads.  A  *)
(* head weight is a fraction over AA_One(integration_steps): the values of *)
(* tf.linspace(0.0, 1.0, integration_steps) are then the integers          *)
(* 0..integration_steps-1, and 1.0 is AA_One(integration_steps).  The      *)
(* post-softmax score of a head stands for its whole score matrix.         *)
(***************************************************************************)
MaxSteps == 3

\* the largest number of calls of compute_attention_attribution on one stack
MaxCalls == 2

\* the input examples
AA_Inputs == {1, 2}

\* 1.0 as a weight
AA_One(steps) == IF steps > 1 THEN steps - 1 ELSE 1

\* tf.linspace(0.0, 1.0, num): 0.0 + k * (1.0 - 0.0) / (num - 1) for
\* k = 0..num-1, the single value 0.0 for num = 1
AA_Linspace(num) == [k \in 1..num |-> IF num = 1 THEN 0 ELSE k - 1]

\* the output of self._masked_softmax in layer l, head h (0-based) for an input
AA_Softmax(inputs, l, h) == inputs + l + h

AW_ComputeAttention_pre(alpha, softmax) ==
    [attention_output |-> [h \in 1..Len(alpha) |-> alpha[h] * softmax[h]],
     attention_scores |-> softmax]

\* AttributableMultiHeadAttention._compute_attention from the softmax on (the
\* dropout layer is the identity outside training, value is taken as 1): the
\* name attention_scores is rebound to the product with alpha at line 325 and
\* that product is both combined with value and returned
AW_ComputeAttention(alpha, softmax) ==
    LET attention_scores == [h \in 1..Len(alpha) |-> alpha[h] * softmax[h]]
    IN  [attention_output |-> attention_scores,
         attention_scores |-> attention_scores]

\* y, scores = call(inputs): every attention layer computes its attention with
\* its current weights; scores[l] is what layer l returned as attention_scores,
\* and y is half the square of the sum of the attention outputs
AA_Call(alpha, inputs) ==
    LET layers == [l \in 1..Len(alpha) |->
                      AW_ComputeAttention(alpha[l],
                          [h \in 1..Len(alpha[l]) |-> AA_Softmax(inputs, l - 1, h - 1)])]
    IN  [scores |-> [l \in 1..Len(alpha) |-> layers[l].attention_scores],
         outputs |-> SumSeq([l \in 1..Len(alpha) |-> SumSeq(layers[l].attention_output)])]

\* tf.gradients([y], [scores[layer_index]], stop_gradients=[scores[layer_index]])
\* [0][:,head,:,:]: the derivative of y with respect to the returned score
\* tensor of the layer, which for this y is the sum of the attention outputs
AA_Gradient(alpha, inputs, layer_index, head) == AA_Call(alpha, inputs).outputs

\* transformer_stack.reset_attention_attribution_weights(): every attention
\* layer of the stack resets its weights to 1.0
AA_ResetStack(alpha, one) == [l \in 1..Len(alpha) |-> [h \in 1..Len(alpha[l]) |-> one]]

\* mha_layer.set_attention_attribution_weight(head, alpha):
\* self._alpha.scatter_nd_update([[head]], [alpha])
AA_SetWeight(alpha_l, head, a) == [alpha_l EXCEPT ![head + 1] = a]

AA_SweepCond_short(k, steps) == k + 1 < steps

\* line 224: the loop over tf.linspace(0.0, 1.0, integration_steps) has a
\* k-th value
AA_SweepCond(k, steps) == k < steps

\* the factory has been called on a freshly built stack: every layer holds
\* tf.Variable([1.0]*num_heads)
AA_Init ==
    /\ aa_steps \in 1..MaxSteps
    /\ aa_alpha = [l \in 1..NumLayers |-> [h \in 1..NumHeads |-> AA_One(aa_steps)]]
    /\ aa_pc = "ready"
    /\ aa_inputs = 0
    /\ aa_layer = 0
    /\ aa_head = 0
    /\ aa_k = 0
    /\ aa_grads = 0
    /\ aa_i = 0
    /\ aa_result = <<>>
    /\ aa_passes = <<>>
    /\ aa_output = None
    /\ aa_calls = 0

\* no attribution function in use
AA_Idle ==
    /\ aa_steps = 0
    /\ aa_alpha = <<>>
    /\ aa_pc = "idle"
    /\ aa_inputs = 0
    /\ aa_layer = 0
    /\ aa_head = 0
    /\ aa_k = 0
    /\ aa_grads = 0
    /\ aa_i = 0
    /\ aa_result = <<>>
    /\ aa_passes = <<>>
    /\ aa_output = None
    /\ aa_calls = 0

\* lines 217-223: compute_attention_attribution(inputs) is called; one forward
\* pass for the shape, the weights of the stack are reset, the result array
\* is empty, and the sweep of layer 0, head 0 starts with grads = zeros
AA_Begin ==
    /\ aa_pc \in {"ready", "returned"}
    /\ aa_calls < MaxCalls
    /\ \E inputs \in AA_Inputs : aa_inputs' = inputs
    /\ aa_alpha' = AA_ResetStack(aa_alpha, AA_One(aa_steps))
    /\ aa_result' = <<>>
    /\ aa_i' = 0
    /\ aa_layer' = 0
    /\ aa_head' = 0
    /\ aa_grads' = 0
    /\ aa_k' = 0
    /\ aa_passes' = <<>>
    /\ aa_output' = None
    /\ aa_pc' = "sweep"
    /\ UNCHANGED <<aa_steps, aa_calls>>
    /\ UNCHANGED aaOthers

\* lines 224-227: one iteration of the loop over alpha: the weight of the head
\* is set, the forward pass is run and its gradient is added to grads
AA_Pass ==
    /\ aa_pc = "sweep"
    /\ AA_SweepCond(aa_k, aa_steps)
    /\ LET a == AA_Linspace(aa_steps)[aa_k + 1]
           alpha == [aa_alpha EXCEPT ![aa_layer + 1] = AA_SetWeight(@, aa_head, a)]
           grad == AA_Gradient(alpha, aa_inputs, aa_layer, aa_head)
       IN  /\ aa_alpha' = alpha
           /\ aa_grads' = aa_grads + grad
           /\ aa_passes' = Append(aa_passes,
                  [layer |-> aa_layer, head |-> aa_head, k |-> aa_k, alpha |-> alpha,
                   scores |-> AA_Call(alpha, aa_inputs).scores, grad |-> grad])
    /\ aa_k' = aa_k + 1
    /\ UNCHANGED <<aa_steps, aa_pc, aa_inputs, aa_layer, aa_head, aa_i, aa_result,
                   aa_output, aa_calls>>
    /\ UNCHANGED aaOthers

\* lines 222-223 and 228-229: the loop over alpha has ended; grads is written
\* at index i, i is incremented and the next head, or the first head of the
\* next layer, starts with grads = zeros
AA_WriteHead ==
    /\ aa_pc = "sweep"
    /\ ~AA_SweepCond(aa_k, aa_steps)
    /\ aa_result' = [x \in 1..Max(Len(aa_result), aa_i + 1) |->
                        IF x = aa_i + 1 THEN aa_grads ELSE aa_result[x]]
    /\ aa_i' = aa_i + 1
    /\ aa_grads' = 0
    /\ aa_k' = 0
    /\ IF aa_head + 1 < NumHeads
       THEN /\ aa_head' = aa_head + 1
            /\ UNCHANGED <<aa_layer, aa_pc>>
       ELSE IF aa_layer + 1 < NumLayers
       THEN /\ aa_head' = 0
            /\ aa_layer' = aa_layer + 1
            /\ UNCHANGED aa_pc
       ELSE /\ aa_pc' = "stack"
            /\ UNCHANGED <<aa_layer, aa_head>>
    /\ UNCHANGED <<aa_steps, aa_alpha, aa_inputs, aa_passes, aa_output, aa_calls>>
    /\ UNCHANGED aaOthers

\* lines 230-234: the written gradients are stacked and reshaped to
\* (stack, num_heads, ...); the transpose moves the batch axis to the front
AA_Return ==
    /\ aa_pc = "stack"
    /\ aa_output' = Some([l \in 1..NumLayers |->
                             [h \in 1..NumHeads |-> aa_result[(l - 1) * NumHeads + h]]])
    /\ aa_pc' = "returned"
    /\ aa_calls' = aa_calls + 1
    /\ UNCHANGED <<aa_steps, aa_alpha, aa_inputs, aa_layer, aa_head, aa_k, aa_grads, aa_i,
                   aa_result, aa_passes>>
    /\ UNCHANGED aaOthers

NextAttribution ==
    \/ AA_Begin
    \/ AA_Pass
    \/ AA_WriteHead
    \/ AA_Return

(***************************************************************************)
(*                    RelativeMultiHeadAttention._skew                     *)
(*                                                                         *)
(* QEr has the shape (batch, heads, T, M); tf.pad and the slice leave the  *)
(* two leading axes alone and the reshape keeps their sizes, so every      *)
(* (batch, head) block is transformed on its own: one block is modelled.   *)
(***************************************************************************)
SK_Values == {1, 2}

\* the T x M blocks, T and M in 1..MaxSeqLen
SK_Blocks ==
    UNION {[1..t -> [1..m -> SK_Values]] : t \in 1..MaxSeqLen, m \in 1..MaxSeqLen}

SK_Pad_right(QEr) ==
    [q \in 1..Len(QEr) |-> [c \in 1..(Len(QEr[q]) + 1) |->
        IF c = Len(QEr[q]) + 1 THEN 0 ELSE QEr[q][c]]]

\* tf.pad(QEr, [[0, 0], [0, 0], [0, 0], [1, 0]]): one column of zeros before
\* the first column
SK_Pad(QEr) ==
    [q \in 1..Len(QEr) |-> [c \in 1..(Len(QEr[q]) + 1) |->
        IF c = 1 THEN 0 ELSE QEr[q][c - 1]]]

\* tf.reshape of a block to rows x cols: the elements in row-major order
SK_Reshape(block, rows, cols) ==
    LET width == Len(block[1])
        at(f) == block[(f \div width) + 1][(f % width) + 1]
    IN  [r \in 1..rows |-> [s \in 1..cols |-> at((r - 1) * cols + (s - 1))]]

\* reshaped[:,:,1:,:]
SK_DropFirstRow(block) == [r \in 1..(Len(block) - 1) |-> block[r + 1]]

\* _skew, lines 359-362: shape[2] is T and shape[3] is M + 1
SK_Skew(QEr) ==
    LET padded == SK_Pad(QEr)
        reshaped == SK_Reshape(padded, Len(padded[1]), Len(padded))
    IN  SK_DropFirstRow(reshaped)

SK_Init ==
    /\ sk_QEr \in SK_Blocks
    /\ sk_pc = "start"
    /\ sk_output = None

\* _skew is not running
SK_Idle ==
    /\ sk_QEr = <<>>
    /\ sk_pc = "idle"
    /\ sk_output = None

\* the call _skew(QEr)
SK_Call ==
    /\ sk_pc = "start"
    /\ sk_output' = Some(SK_Skew(sk_QEr))
    /\ sk_pc' = "done"
    /\ UNCHANGED sk_QEr
    /\ UNCHANGED skOthers

NextSkew == SK_Call

\* the token-to-token edges: those that do not start at the class token
TA_TokenEdges == {e \in ta_edges : e[1] # TA_Cls}

TA_InEdges(E, v) == {e \in E : e[2] = v}

\* the vertices reachable from the set S along the edges E
RECURSIVE TA_ReachFrom(_, _)
TA_ReachFrom(E, S) ==
    LET nxt == S \cup {e[2] : e \in {x \in E : x[1] \in S}}
    IN  IF nxt = S THEN S ELSE TA_ReachFrom(E, nxt)

TA_Acyclic(E) == \A e \in E : e[1] \notin TA_ReachFrom(E, {e[2]})

\* C9 as stated: the returned vertex/edge sets form a single tree rooted at the
\* class-token vertex (-1): no cycle, and every vertex other than the class
\* token has exactly one incoming edge.
C9_Original ==
    ta_pc = "done" =>
        /\ TA_Acyclic(ta_edges)
        /\ \A v \in ta_vertices \ {TA_Cls} : Cardinality(TA_InEdges(ta_edges, v)) = 1

\* C9 as amended: the returned edges contain no cycle and join vertices only;
\* the token-to-token edges form a single tree rooted at the top token (every
\* token vertex but the top token has exactly one incoming token-to-token edge,
\* the top token none, and all are reachable from it); in addition every token
\* vertex has an incoming edge from the class-token vertex (-1), which has none.
C9_TokenTree ==
    ta_pc = "done" =>
        /\ TA_Acyclic(ta_edges)
        /\ \A e \in ta_edges : e[1] \in ta_vertices /\ e[2] \in ta_vertices
        /\ TA_Cls \in ta_vertices
        /\ TA_InEdges(ta_edges, TA_Cls) = {}
        /\ ta_vertices \ {TA_Cls} = TA_ReachFrom(TA_TokenEdges, {ta_top_node[1]})
        /\ \A v \in ta_vertices \ {TA_Cls} :
               /\ <<TA_Cls, v>> \in ta_edges
               /\ Cardinality(TA_InEdges(TA_TokenEdges, v)) =
                      IF v = ta_top_node[1] THEN 0 ELSE 1

\* a result whose token tree has a chain top -> a -> b
C9_Witness ==
    /\ ta_pc = "done"
    /\ \E a, b \in ta_vertices \ {TA_Cls} :
           /\ <<ta_top_node[1], a>> \in ta_edges
           /\ <<a, b>> \in ta_edges

\* C10 as stated: the class-token vertex (-1) is in the returned vertex set,
\* and an edge (-1, j) is added exactly for the vertices j in state Appear or
\* Fixed that have no other incoming edge.
C10_Original ==
    ta_pc = "done" =>
        /\ TA_Cls \in ta_vertices
        /\ \A j \in DOMAIN ta_state :
               <<TA_Cls, j>> \in ta_edges <=>
                   (ta_state[j] \in {Appear, Fixed} /\ TA_InEdges(TA_TokenEdges, j) = {})

\* C10 as amended: the class-token vertex (-1) is in the returned vertex set,
\* and an edge (-1, j) is added exactly for the vertices j in state Appear or
\* Fixed, whether or not j already has a token parent.
C10_ClassEdges ==
    ta_pc = "done" =>
        /\ TA_Cls \in ta_vertices
        /\ \A e \in ta_edges : e[1] = TA_Cls => e[2] \in DOMAIN ta_state
        /\ \A j \in DOMAIN ta_state :
               <<TA_Cls, j>> \in ta_edges <=> ta_state[j] \in {Appear, Fixed}

\* a result with a Fixed vertex, a vertex that has a token parent and a token
\* that never appeared
C10_Witness ==
    /\ ta_pc = "done"
    /\ \E j \in DOMAIN ta_state : ta_state[j] = Fixed
    /\ \E j \in DOMAIN ta_state :
           TA_InEdges(TA_TokenEdges, j) # {} /\ <<TA_Cls, j>> \in ta_edges
    /\ \E j \in DOMAIN ta_state : ta_state[j] = NotAppear

\* the per-record token attribution score of token index k of record r (both
\* 1-based): the attribution from k to every other token, summed over the
\* layers and the heads
TA_PairScore(store, r, k) ==
    LET attrs == store.records[r].attrs
    IN  SumSeq([l \in 1..Len(attrs) |->
            SumSeq([h \in 1..Len(attrs[l]) |->
                SumSeq([j \in 1..Len(store.records[r].names) |->
                    IF j = k THEN 0 ELSE attrs[l][h][k + 1][j + 1]])])])

\* the (record, token index) pairs of a store
TA_Pairs(store) ==
    UNION {{<<r, k>> : k \in 1..Len(store.records[r].names)} : r \in 1..Len(store.records)}

TA_PairBefore(p, q) == p[1] < q[1] \/ (p[1] = q[1] /\ p[2] < q[2])

\* p has the score v, no pair has a higher score, and p is the first pair with
\* that score: the earliest record, within it the lowest token index
TA_IsFirstBest(store, p, v) ==
    /\ TA_PairScore(store, p[1], p[2]) = v
    /\ \A q \in TA_Pairs(store) :
           \/ TA_PairScore(store, q[1], q[2]) < v
           \/ TA_PairScore(store, q[1], q[2]) = v /\ (q = p \/ TA_PairBefore(p, q))

\* the token identity of a pair
TA_PairId(store, p) == ta_token_ids[store.records[p[1]].names[p[2]]]

\* C11: the root is the token identity of the (record, token) pair with the
\* highest per-record token attribution score over all records, the earliest
\* record and within it the lowest token index winning on equal scores; when
\* the tree walk starts it is the only vertex in state Appear.
C11_Root ==
    ta_pc \in {"walk", "done"} =>
        /\ \E p \in TA_Pairs(ta_store) :
               /\ TA_IsFirstBest(ta_store, p, ta_top_node_value[1])
               /\ ta_top_node = Some(TA_PairId(ta_store, p))
        /\ (ta_pc = "walk" /\ ta_edges = {}) =>
               {id \in DOMAIN ta_state : ta_state[id] = Appear} = {ta_top_node[1]}

\* the walk starts on a store whose highest score is reached in two records,
\* by tokens of different identity
C11_Witness ==
    /\ ta_pc = "walk"
    /\ ta_edges = {}
    /\ \E p, q \in TA_Pairs(ta_store) :
           /\ p[1] < q[1]
           /\ TA_PairScore(ta_store, q[1], q[2]) = ta_top_node_value[1]
           /\ TA_IsFirstBest(ta_store, p, ta_top_node_value[1])
           /\ TA_PairId(ta_store, p) # TA_PairId(ta_store, q)

\* the record count the store announces: the value under "length" (the number
\* of records) when the key is present, floor(number of keys / 4) otherwise
TA_AnnouncedCount(store) ==
    IF store.has_length THEN Len(store.records) ELSE TA_StoreLen(store) \div 4

\* C12 as stated: on a store without the "length" key token_attribution does
\* not fail, takes floor(number_of_keys / 4) as the record count and processes
\* exactly the records 0..count-1; with the "length" key it processes exactly
\* that many records.
C12_Original ==
    /\ ta_pc # "error"
    /\ ta_pc \in {"walk", "done"} =>
           /\ ta_length = TA_AnnouncedCount(ta_store)
           /\ ta_n = TA_AnnouncedCount(ta_store)

\* C12, the part that holds: a store without the "length" key that holds at
\* least one record is processed without failure, records 0..count-1 with
\* count = floor(number_of_keys / 4)
C12_Fallback ==
    (~ta_store.has_length /\ Len(ta_store.records) >= 1) =>
        /\ ta_pc # "error"
        /\ ta_pc = "records" => ta_n <= ta_length
        /\ ta_pc \in {"records", "walk", "done"} =>
               ta_length = TA_StoreLen(ta_store) \div 4
        /\ ta_pc \in {"walk", "done"} => ta_n = ta_length

\* every row of the sizes input asks for the same target size
SS_AllEqual == \A b \in 1..Len(ss_sizes) : ss_sizes[b] = ss_sizes[1]

\* the call returned a set of n vectors per batch row: n pairwise distinct slot
\* indices in [0, max_set_size) per row, every vector drawn for that row and
\* slot, output shape (batch, n, embed_dim)
SS_Sampled(n) ==
    /\ ss_pc = "done"
    /\ Len(ss_output[1]) = Len(ss_sizes)
    /\ \A b \in 1..Len(ss_sizes) :
           /\ Len(ss_random_indices[b]) = n
           /\ Len(ss_output[1][b]) = n
           /\ \A k \in 1..n :
                  /\ ss_random_indices[b][k] \in 0..(ss_max_set_size - 1)
                  /\ \A k2 \in 1..n :
                         k # k2 => ss_random_indices[b][k] # ss_random_indices[b][k2]
                  /\ Len(ss_output[1][b][k]) = ss_embed_dim
                  /\ \A d \in 1..ss_embed_dim :
                         ss_output[1][b][k][d] = <<b - 1, ss_random_indices[b][k], d - 1>>

\* C13 as stated: SampleSet.call with target size n, 0 <= n <= max_set_size,
\* selects for every batch row n pairwise distinct slot indices in
\* [0, max_set_size), gathers each vector from that row's sampled set, and
\* returns a tensor of shape (batch, n, embed_dim).
C13_Original ==
    (ss_pc \in {"done", "error"} /\ SS_AllEqual /\ ss_sizes[1] <= ss_max_set_size) =>
        SS_Sampled(ss_sizes[1])

\* C13, the part that holds: the same for target sizes 1 <= n <= max_set_size
C13_Positive ==
    (ss_pc \in {"done", "error"} /\ SS_AllEqual
        /\ 1 <= ss_sizes[1] /\ ss_sizes[1] <= ss_max_set_size) =>
        SS_Sampled(ss_sizes[1])

\* a batch of two rows, two of three slots sampled per row, different slots
\* in the two rows
C13_PositiveWitness ==
    /\ ss_pc = "done"
    /\ Len(ss_sizes) = 2
    /\ SS_AllEqual
    /\ ss_sizes[1] = 2
    /\ ss_max_set_size = 3
    /\ ss_random_indices[1] # ss_random_indices[2]

\* C14 as stated: when the target sizes of the sizes input are not all equal
\* across the batch, SampleSet.call ends in an exception and produces no
\* output set.
C14_Original ==
    (ss_pc \in {"done", "error"} /\ ~SS_AllEqual) =>
        (ss_pc = "error" /\ ss_output = None)

\* the attribution matrix of layer l (1-based) of a record, summed over heads
TA_LayerMatrix(rec, l) == TA_AttrsByLayer(rec.attrs)[l]

TA_ZeroLayer(rec, l) ==
    \A i, j \in 1..Len(TA_LayerMatrix(rec, l)) : TA_LayerMatrix(rec, l)[i][j] = 0

\* the candidate (i, j) of layer l comes from a cell of record r whose ratio to
\* the non-zero layer maximum exceeds tau
TA_Justified(e, rec, l) ==
    LET a == TA_LayerMatrix(rec, l)
        mx == TA_LayerMax(a)
    IN  /\ mx # 0
        /\ \E i, j \in 1..Len(a) :
               /\ e = <<ta_token_ids[rec.names[i]], ta_token_ids[rec.names[j]]>>
               /\ \/ mx > 0 /\ a[i][j] * TA_TauDen > ta_taus[l] * mx
                  \/ mx < 0 /\ a[i][j] * TA_TauDen < ta_taus[l] * mx

\* C15: a layer whose attribution matrix is all zeros in a record contributes
\* no candidate edge for that record, at every layer including the final one
\* (tau = 0): every candidate edge of a layer comes from a record whose matrix
\* of that layer has a non-zero maximum, and the candidates handed to the tree
\* walk are pairs of token ids only.
C15_ZeroLayerNoEdges ==
    ta_pc \in {"records", "walk", "done"} =>
        \A l \in 1..Len(ta_taus) :
            \A e \in ta_edges_by_layer[l] :
                /\ e \in {ta_token_ids[nm] : nm \in DOMAIN ta_token_ids}
                         \X {ta_token_ids[nm] : nm \in DOMAIN ta_token_ids}
                /\ \E r \in 1..ta_n :
                       /\ ~TA_ZeroLayer(ta_store.records[r], l)
                       /\ TA_Justified(e, ta_store.records[r], l)

\* the walk has started on a store whose record has an all-zero final layer and
\* an all-zero walked layer next to a layer that gave a candidate edge
C15_Witness ==
    /\ ta_pc = "walk"
    /\ TA_ZeroLayer(ta_store.records[1], Len(ta_taus))
    /\ ta_edges_by_layer[Len(ta_taus)] = {}
    /\ \E l \in 1..(Len(ta_taus) - 1) :
           TA_ZeroLayer(ta_store.records[1], l) /\ ta_edges_by_layer[l] = {}
    /\ \E l \in 1..(Len(ta_taus) - 1) : ta_edges_by_layer[l] # {}

\* position j (1-based) of row b lies inside the trimmed window
TM_InWindow(b, j) ==
    tm_offsets[b] <= j - 1 /\ j - 1 < tm_offsets[b] + tm_lengths[b]

\* position j (1-based) of row b lies inside the mask span
TM_InSpan(b, j) ==
    /\ tm_offsets[b] + tm_mask_offsets[b] <= j - 1
    /\ j - 1 < tm_offsets[b] + tm_mask_offsets[b] + tm_mask_lengths[b]

\* C16 as stated: TrimAndContiguousMask.call returns an output in which every
\* position is exactly one of padded (1, the positions outside the trimmed
\* window), masked (0, inside the window and the mask span) or kept (the input
\* value, inside the window and outside the span); the window has a length in
\* [min_len, max_len] and lies inside [0, max_len).
C16_Original ==
    tm_pc \in {"done", "error"} =>
        /\ tm_pc = "done"
        /\ \A b \in 1..Len(tm_inputs) :
               /\ tm_min_len <= tm_lengths[b] /\ tm_lengths[b] <= tm_max_len
               /\ 0 <= tm_offsets[b] /\ tm_offsets[b] + tm_lengths[b] <= tm_max_len
               /\ \A j \in 1..tm_max_len :
                      tm_output[1][b][j] =
                          IF ~TM_InWindow(b, j) THEN 1
                          ELSE IF TM_InSpan(b, j) THEN 0
                          ELSE tm_inputs[b][j]

\* C17 as stated: TrimAndContiguousMask.call masks, in every row, a span of
\* exactly ceil(mask_ratio * trimmed_length) positions that lies entirely
\* inside the trimmed window.
C17_Original ==
    tm_pc \in {"done", "error"} =>
        /\ tm_pc = "done"
        /\ \A b \in 1..Len(tm_inputs) :
               /\ tm_mask_lengths[b] = Ceil(tm_mask_ratio * tm_lengths[b], RatioDen)
               /\ 0 <= tm_mask_offsets[b]
               /\ tm_mask_offsets[b] + tm_mask_lengths[b] <= tm_lengths[b]
               /\ \A j \in 1..tm_max_len :
                      (TM_InWindow(b, j) /\ TM_InSpan(b, j)) => tm_output[1][b][j] = 0

\* what the draws of the call satisfy when it stops: the window has a length in
\* [min_len, max_len] and lies inside [0, max_len); the drawn mask length is at
\* most ceil(mask_ratio * trimmed_length) and the span lies inside the window
TM_DrawsInRange ==
    tm_pc \in {"done", "error"} =>
        \A b \in 1..Len(tm_inputs) :
            /\ tm_min_len <= tm_lengths[b] /\ tm_lengths[b] <= tm_max_len
            /\ 0 <= tm_offsets[b] /\ tm_offsets[b] + tm_lengths[b] <= tm_max_len
            /\ 0 <= tm_mask_lengths[b]
            /\ tm_mask_lengths[b] <= Ceil(tm_mask_ratio * tm_lengths[b], RatioDen)
            /\ 0 <= tm_mask_offsets[b]
            /\ tm_mask_offsets[b] + tm_mask_lengths[b] <= tm_lengths[b]

\* a call whose drawn mask length is below ceil(mask_ratio * trimmed_length)
TM_ShortMaskDrawn ==
    /\ tm_pc \in {"done", "error"}
    /\ \E b \in 1..Len(tm_inputs) :
           tm_mask_lengths[b] < Ceil(tm_mask_ratio * tm_lengths[b], RatioDen)

\* the number of sub-layer invocations C18 names
CE_ExpectedCalls ==
    IF ce_chunk_size = None \/ Len(Flatten(ce_inputs)) <= ce_chunk_size[1]
    THEN 1
    ELSE Ceil(Len(Flatten(ce_inputs)), ce_chunk_size[1])

\* C18: ChunkedEmbeddingLayer.call terminates for every chunk_size >= 1 and
\* every flattened length N; by then the sub-layer has been invoked exactly
\* once when chunk_size is None or N <= chunk_size, and exactly
\* ceil(N / chunk_size) times otherwise.
C18_Terminates ==
    <>[](ce_pc = "done" /\ Len(ce_calls) = CE_ExpectedCalls)

\* a chunked call has returned after ceil(N / chunk_size) >= 2 invocations, the
\* last one on a slice shorter than chunk_size
C18_Witness ==
    /\ ce_pc = "done"
    /\ ce_chunk_size # None
    /\ Len(ce_calls) = Ceil(CE_N, ce_chunk_size[1])
    /\ Len(ce_calls) >= 2
    /\ Len(ce_calls[Len(ce_calls)][2]) < ce_chunk_size[1]

\* the layers n-1, n-2, ..., 0 in that order
TA_Descending(n) == [k \in 1..n |-> n - k]

\* every candidate of every layer in layers has been visited exactly once and
\* nothing else has been visited
TA_VisitedOnce(layers) ==
    /\ DOMAIN ta_visits =
           UNION {{<<l, e>> : e \in ta_edges_by_layer[l + 1]} : l \in layers}
    /\ \A x \in DOMAIN ta_visits : ta_visits[x] = 1

\* C19 as stated: the tree walk starts with the root as the only appeared
\* vertex and processes the candidate edge set of every layer exactly once,
\* from the final layer (tau = 0) down to layer 0; no layer is left out.
C19_Original ==
    ta_pc = "done" =>
        /\ ta_walked = TA_Descending(Len(ta_taus))
        /\ TA_VisitedOnce(0..(Len(ta_taus) - 1))

\* C19 as amended: the tree walk starts with the root as the only appeared
\* vertex and processes the candidate edge sets of the layers len(taus) - 2
\* down to 0, each exactly once and in that order; the candidate set of the
\* final layer (tau = 0) is never walked.
C19_WalkedLayers ==
    /\ (ta_pc = "walk" /\ ta_visits = <<>>) =>
           /\ {id \in DOMAIN ta_state : ta_state[id] # NotAppear} = {ta_top_node[1]}
           /\ ta_state[ta_top_node[1]] = Appear
    /\ ta_pc = "walk" =>
           /\ ta_walked = [k \in 1..(Len(ta_taus) - 1 - ta_l) |-> Len(ta_taus) - 1 - k]
           /\ \A x \in DOMAIN ta_visits :
                  /\ ta_visits[x] = 1
                  /\ ta_l <= x[1] /\ x[1] <= Len(ta_taus) - 2
    /\ ta_pc = "done" =>
           /\ ta_walked = TA_Descending(Len(ta_taus) - 1)
           /\ TA_VisitedOnce(0..(Len(ta_taus) - 2))

\* a result for which the final layer held a candidate (i, j), i # j, with i in
\* the tree and j not: the walk of the final layer would have added it
C19_Witness ==
    /\ ta_pc = "done"
    /\ \E e \in ta_edges_by_layer[Len(ta_taus)] :
           /\ e[1] # e[2]
           /\ ta_state[e[1]] \in {Appear, Fixed}
           /\ ta_state[e[2]] = NotAppear
    /\ ta_edges # {<<TA_Cls, ta_top_node[1]>>}

\* the step processes one candidate of the current layer
TA_CandidateStep ==
    /\ ta_pc = "walk"
    /\ ta_pc' = "walk"
    /\ ta_l' = ta_l
    /\ ta_todo' # ta_todo

\* the candidate a candidate step processes
TA_Processed == CHOOSE e \in ta_todo \ ta_todo' : TRUE

\* C20: in the tree walk a token-to-token edge (i, j) is added only when, at
\* the moment the candidate (i, j) is processed, i # j, state[i] is Appear or
\* Fixed and state[j] is NotAppear; that step sets state[j] to Appear and
\* state[i] to Fixed, adds j to the vertices and changes the state of no other
\* vertex; a candidate that does not meet the condition changes nothing, and
\* no other step of the walk changes the edges, the vertices or the states.
C20_WalkStep ==
    [][ /\ TA_CandidateStep =>
               LET i == TA_Processed[1]
                   j == TA_Processed[2]
               IN  /\ ta_todo' = ta_todo \ {TA_Processed}
                   /\ IF i # j /\ ta_state[i] \in {Appear, Fixed} /\ ta_state[j] = NotAppear
                      THEN /\ ta_edges' = ta_edges \cup {<<i, j>>}
                           /\ ta_vertices' = ta_vertices \cup {j}
                           /\ ta_state' = [id \in DOMAIN ta_state |->
                                              IF id = i THEN Fixed
                                              ELSE IF id = j THEN Appear
                                              ELSE ta_state[id]]
                      ELSE UNCHANGED <<ta_edges, ta_vertices, ta_state>>
        /\ (ta_pc = "walk" /\ ta_pc' = "walk" /\ ~TA_CandidateStep) =>
               UNCHANGED <<ta_edges, ta_vertices, ta_state>>
      ]_vars

\* the walk has added two edges from one parent (the second one when the
\* parent was already Fixed) and has rejected a candidate (i, j) with i # j
C20_Witness ==
    /\ ta_pc = "walk"
    /\ \E i, j, k \in DOMAIN ta_state :
           j # k /\ <<i, j>> \in ta_edges /\ <<i, k>> \in ta_edges
    /\ \E x \in DOMAIN ta_visits : x[2][1] # x[2][2] /\ x[2] \notin ta_edges

\* a / mx > num / TA_TauDen for integers a, mx and a non-negative num, the
\* quotient being that of floating point (a / 0 is +inf for a > 0, -inf for
\* a < 0, and 0 / 0 compares above nothing)
TA_RatioAbove(a, mx, num) ==
    IF mx > 0 THEN a * TA_TauDen > num * mx
    ELSE IF mx < 0 THEN a * TA_TauDen < num * mx
    ELSE a > 0

\* tau_l: the given tau for every layer (1-based) but the final one, 0 there
TA_TauOf(l, layers) == IF l = layers THEN 0 ELSE TA_TauNum

\* the pairs (id(i), id(j)) of record rec whose ratio in layer l exceeds tau_l
TA_ExpectedEdges(rec, l, layers) ==
    LET a == TA_LayerMatrix(rec, l)
    IN  {<<ta_token_ids[rec.names[i]], ta_token_ids[rec.names[j]]>> :
            <<i, j>> \in {c \in (1..Len(a)) \X (1..Len(a)) :
                TA_RatioAbove(a[c[1]][c[2]], TA_LayerMax(a), TA_TauOf(l, layers))}}

\* C21: the candidate edge set of layer l is exactly the union, over the
\* records read so far (all records once the loop has ended), of the pairs
\* (id(i), id(j)) with a_l[i][j] / max(a_l) > tau_l, where a_l is the record's
\* head-summed, class-token-stripped matrix of layer l and tau_l is the given
\* tau for every layer but the final one and 0 for the final layer.
C21_CandidateEdges ==
    ta_pc \in {"records", "walk", "done"} =>
        /\ Len(ta_edges_by_layer) = Len(ta_store.records[1].attrs)
        /\ \A l \in 1..Len(ta_edges_by_layer) :
               ta_edges_by_layer[l] =
                   UNION {TA_ExpectedEdges(ta_store.records[r], l, Len(ta_edges_by_layer)) :
                              r \in 1..ta_n}

\* the result of a store of two records that name the tokens in different
\* orders, in which a cell of ratio 1/3 is a candidate of the final layer and
\* the same cell is no candidate of an earlier layer, which holds the
\* candidates of both records
C21_Witness ==
    /\ ta_pc = "done"
    /\ ta_n = 2
    /\ ta_store.records[1].names # ta_store.records[2].names
    /\ TA_LayerMatrix(ta_store.records[1], NumLayers) = <<<<0, 1>>, <<3, 0>>>>
    /\ TA_LayerMatrix(ta_store.records[1], 1) = <<<<0, 1>>, <<3, 0>>>>
    /\ TA_LayerMatrix(ta_store.records[2], NumLayers) = <<<<0, 0>>, <<0, 0>>>>
    /\ TA_LayerMatrix(ta_store.records[2], 1) = <<<<0, 1>>, <<3, 0>>>>
    /\ ta_edges_by_layer[NumLayers] = {<<0, 1>>, <<1, 0>>}
    /\ ta_edges_by_layer[1] = {<<1, 0>>, <<0, 1>>}


\* C22 as stated: the root is the token identity whose running total,
\* accumulated over every record, is the largest.
C22_Original ==
    ta_pc \in {"walk", "done"} =>
        \A id \in DOMAIN ta_token_total_attrs :
            ta_token_total_attrs[ta_top_node[1]] >= ta_token_total_attrs[id]

\* C22: the root is the token identity of a (record, token) pair whose score
\* within its own record is the highest over all (record, token) pairs of the
\* store; the running totals over the records play no part in its choice.
C22_BestInOneRecord ==
    ta_pc \in {"walk", "done"} =>
        \E p \in TA_Pairs(ta_store) :
            /\ ta_top_node = Some(TA_PairId(ta_store, p))
            /\ \A q \in TA_Pairs(ta_store) :
                   TA_PairScore(ta_store, q[1], q[2]) <= TA_PairScore(ta_store, p[1], p[2])

\* a result whose root has a smaller running total than another token: the
\* root has the highest score within one record, the other token the larger
\* sum over the two records
C22_Witness ==
    /\ ta_pc = "done"
    /\ ta_n = 2
    /\ \E id \in DOMAIN ta_token_total_attrs :
           ta_token_total_attrs[id] > ta_token_total_attrs[ta_top_node[1]]


\* the sum, over the first n records and every occurrence of the identity id
\* in them, of the score of the occurrence
TA_TotalOf(store, id, n) ==
    SumSeq([r \in 1..n |->
        SumSeq([k \in 1..Len(store.records[r].names) |->
            IF TA_PairId(store, <<r, k>>) = id THEN TA_PairScore(store, r, k) ELSE 0])])

\* the identities that occur in the first n records
TA_IdsIn(store, n) ==
    {TA_PairId(store, p) : p \in {q \in TA_Pairs(store) : q[1] <= n}}

\* C23: for each record the score of token i is the sum over all layers l and
\* all tokens j # i of the head-summed, class-token-stripped a_l[i][j] (the
\* self entry is never added), and the running total of a token identity is
\* the sum of these scores over every occurrence of the identity in the
\* records read so far; the returned token_attrs is that sum over every record.
C23_TokenAttrs ==
    ta_pc \in {"records", "walk", "done"} =>
        /\ DOMAIN ta_token_total_attrs = TA_IdsIn(ta_store, ta_n)
        /\ \A id \in DOMAIN ta_token_total_attrs :
               ta_token_total_attrs[id] = TA_TotalOf(ta_store, id, ta_n)
        /\ ta_pc = "done" => ta_n = Len(ta_store.records)

\* the result of a store in which one identity stands twice in a record and
\* once in the other record, and has a self entry in some layer that would
\* change its total
C23_Witness ==
    /\ ta_pc = "done"
    /\ \E r1, r2 \in 1..2 :
           /\ ta_store.records[r1].names = <<"a", "a">>
           /\ ta_store.records[r2].names = <<"b", "a">>
           /\ \E l \in 1..NumLayers : TA_LayerMatrix(ta_store.records[r1], l)[1][1] > 0
           /\ \E l \in 1..NumLayers : TA_LayerMatrix(ta_store.records[r2], l)[2][1] > 0
    /\ ta_token_total_attrs[ta_token_ids["a"]] > 0
    /\ ta_token_total_attrs[ta_token_ids["b"]] > 0


\* the sum of the gradients of the passes numbered from + 1 .. to
AA_GradSum(from, to) == SumSeq([x \in 1..(to - from) |-> aa_passes[from + x].grad])

\* C24: for every (attention layer, head) pair, taken layer by layer and head
\* by head, exactly integration_steps forward passes are run; before the k-th
\* pass (k = 0..integration_steps-1) the weight of the head is set to the k-th
\* of integration_steps linearly spaced values from 0.0 to 1.0, and the
\* gradient of the pass is added to an accumulator that starts at zero for the
\* pair; the accumulator of every finished pair is the value written for it.
C24_Sweep ==
    aa_pc \in {"sweep", "stack", "returned"} =>
        /\ \A x \in 1..Len(aa_passes) :
               LET pair == (x - 1) \div aa_steps
                   p == aa_passes[x]
               IN  /\ p.layer = pair \div NumHeads
                   /\ p.head = pair % NumHeads
                   /\ p.k = (x - 1) % aa_steps
                   /\ IF aa_steps = 1
                      THEN p.alpha[p.layer + 1][p.head + 1] = 0
                      ELSE p.alpha[p.layer + 1][p.head + 1] * (aa_steps - 1) =
                               p.k * AA_One(aa_steps)
        /\ Len(aa_passes) = aa_i * aa_steps + aa_k
        /\ aa_k <= aa_steps
        /\ \A i \in 0..(aa_i - 1) :
               aa_result[i + 1] = AA_GradSum(i * aa_steps, (i + 1) * aa_steps)
        /\ aa_grads = AA_GradSum(aa_i * aa_steps, Len(aa_passes))
        /\ aa_pc \in {"stack", "returned"} => aa_i = NumLayers * NumHeads
        /\ aa_pc = "returned" =>
               \A l \in 1..NumLayers, h \in 1..NumHeads :
                   aa_output[1][l][h] =
                       AA_GradSum(((l - 1) * NumHeads + h - 1) * aa_steps,
                                  ((l - 1) * NumHeads + h) * aa_steps)

\* a second call with more than two integration steps has returned
C24_Witness ==
    /\ aa_pc = "returned"
    /\ aa_calls = 2
    /\ aa_steps > 2
    /\ Len(aa_passes) = NumLayers * NumHeads * aa_steps
    /\ \A l \in 1..NumLayers, h \in 1..NumHeads : aa_output[1][l][h] > 0


\* C25 as stated: for every integration_steps >= 1, during each forward pass
\* of the sweep of (layer l, head h) at value alpha, head h of layer l has
\* weight exactly alpha and every other head of every layer has weight 1.0,
\* so no weight set for an earlier pair is still different from 1.0 when a
\* later pair is swept.
C25_Original ==
    aa_pc \in {"sweep", "stack", "returned"} =>
        \A x \in 1..Len(aa_passes) :
            LET p == aa_passes[x]
            IN  \A l \in 1..NumLayers, h \in 1..NumHeads :
                    IF l = p.layer + 1 /\ h = p.head + 1
                    THEN p.alpha[l][h] = AA_Linspace(aa_steps)[p.k + 1]
                    ELSE p.alpha[l][h] = AA_One(aa_steps)

\* the same for integration_steps >= 2 only
C25_TwoStepsOrMore == aa_steps >= 2 => C25_Original


\* C26 as stated: the score tensor that _compute_attention returns, and that
\* the gradient of a pass is taken against, is the post-softmax tensor before
\* the multiplication by alpha.
C26_Original ==
    aa_pc \in {"sweep", "stack", "returned"} =>
        \A x \in 1..Len(aa_passes) :
            \A l \in 1..NumLayers, h \in 1..NumHeads :
                aa_passes[x].scores[l][h] =
                    AA_One(aa_steps) * AA_Softmax(aa_inputs, l - 1, h - 1)

\* C26: the score tensor that _compute_attention returns, and that the
\* gradient of a pass is taken against, is the post-softmax tensor multiplied
\* head by head by alpha: in every pass the returned score of every head of
\* every layer is the head's weight at that pass times its post-softmax score.
C26_ReturnsScaledScores ==
    aa_pc \in {"sweep", "stack", "returned"} =>
        \A x \in 1..Len(aa_passes) :
            \A l \in 1..NumLayers, h \in 1..NumHeads :
                aa_passes[x].scores[l][h] =
                    aa_passes[x].alpha[l][h] * AA_Softmax(aa_inputs, l - 1, h - 1)

\* a pass at a weight strictly between 0.0 and 1.0, for a head other than the
\* first: the returned score of the swept head is neither zero nor the
\* post-softmax score
C26_Witness ==
    /\ aa_pc = "sweep"
    /\ Len(aa_passes) > 0
    /\ LET p == aa_passes[Len(aa_passes)]
           s == p.scores[p.layer + 1][p.head + 1]
       IN  /\ p.layer > 0
           /\ p.head > 0
           /\ s > 0
           /\ s < AA_One(aa_steps) * AA_Softmax(aa_inputs, p.layer, p.head)


\* C27: on an L x L block QEr the result of _skew is L x L and holds, for
\* every query position q and key position k with k <= q (0-based), the entry
\* QEr[q][L - 1 - (q - k)] at (q, k): the entry for the relative offset q - k
\* lands on the absolute position (q, k).
C27_Skew ==
    (sk_pc = "done" /\ Len(sk_QEr) = Len(sk_QEr[1])) =>
        LET L == Len(sk_QEr)
            out == sk_output[1]
        IN  /\ Len(out) = L
            /\ \A q \in 0..(L - 1) :
                   /\ Len(out[q + 1]) = L
                   /\ \A k \in 0..q :
                          out[q + 1][k + 1] = sk_QEr[q + 1][(L - 1 - (q - k)) + 1]

\* the skew of a 3 x 3 block whose last row holds different values at the
\* offsets 0 and 2 and whose middle row holds different values at 0 and 1
C27_Witness ==
    /\ sk_pc = "done"
    /\ Len(sk_QEr) = 3
    /\ Len(sk_QEr[1]) = 3
    /\ sk_QEr[3] = <<1, 2, 2>>
    /\ sk_QEr[2] = <<1, 1, 2>>
    /\ sk_output[1][3] = <<1, 2, 2>>
    /\ sk_output[1][2][1] = 1
    /\ sk_output[1][2][2] = 2


\* NotAppear, Appear, Fixed in the order of the walk
TA_Rank(st) == IF st = NotAppear THEN 0 ELSE IF st = Appear THEN 1 ELSE 2

TA_TokenVertices == ta_vertices \ {TA_Cls}

\* C29: after every step of the tree walk the token vertex set equals the set
\* of tokens whose state is Appear or Fixed, every such vertex is reachable
\* from the root along the token-to-token edges added so far, a vertex is
\* Fixed exactly when it has at least one outgoing token-to-token edge, and
\* both end points of every added edge are vertices.
C29_WalkInvariant ==
    ta_pc \in {"walk", "done"} =>
        /\ TA_TokenVertices = {v \in DOMAIN ta_state : ta_state[v] \in {Appear, Fixed}}
        /\ TA_TokenVertices \subseteq TA_ReachFrom(TA_TokenEdges, {ta_top_node[1]})
        /\ \A v \in DOMAIN ta_state :
               ta_state[v] = Fixed <=> (\E e \in TA_TokenEdges : e[1] = v)
        /\ \A e \in TA_TokenEdges : e[1] \in ta_vertices /\ e[2] \in ta_vertices

\* a state of the walk with a Fixed vertex, a child of it that is Appear and a
\* token that is still NotAppear
C29_Witness ==
    /\ ta_pc = "walk"
    /\ \E u, v, w \in DOMAIN ta_state :
           /\ ta_state[u] = Fixed
           /\ ta_state[v] = Appear
           /\ ta_state[w] = NotAppear
           /\ <<u, v>> \in ta_edges
           /\ w \notin ta_vertices


(***************************************************************************)
(* Specifications: one per component, the other components idle.           *)
(***************************************************************************)
InitChunk == CE_Init /\ CM_Idle /\ IM_Idle /\ SM_Idle /\ AW_Idle /\ TM_Idle /\ SS_Idle /\ TA_Idle /\ AA_Idle /\ SK_Idle

SpecChunk == InitChunk /\ [][NextChunk]_vars

\* a call runs to its end: the steps of call and of tf.while_loop (one iteration
\* at a time, parallel_iterations=1) are taken as long as one is enabled
SpecChunkLive == SpecChunk /\ WF_vars(NextChunk)

InitCMask == CE_Idle /\ CM_Init /\ IM_Idle /\ SM_Idle /\ AW_Idle /\ TM_Idle /\ SS_Idle /\ TA_Idle /\ AA_Idle /\ SK_Idle

SpecCMask == InitCMask /\ [][NextCMask]_vars

InitInvert == CE_Idle /\ CM_Idle /\ IM_Init /\ SM_Idle /\ AW_Idle /\ TM_Idle /\ SS_Idle /\ TA_Idle /\ AA_Idle /\ SK_Idle

SpecInvert == InitInvert /\ [][NextInvert]_vars

InitSetMask == CE_Idle /\ CM_Idle /\ IM_Idle /\ SM_Init /\ AW_Idle /\ TM_Idle /\ SS_Idle /\ TA_Idle /\ AA_Idle /\ SK_Idle

SpecSetMask == InitSetMask /\ [][NextSetMask]_vars

InitAlpha == CE_Idle /\ CM_Idle /\ IM_Idle /\ SM_Idle /\ AW_Init /\ TM_Idle /\ SS_Idle /\ TA_Idle /\ AA_Idle /\ SK_Idle

SpecAlpha == InitAlpha /\ [][NextAlpha]_vars

InitTrimMask == CE_Idle /\ CM_Idle /\ IM_Idle /\ SM_Idle /\ AW_Idle /\ TM_Init /\ SS_Idle /\ TA_Idle /\ AA_Idle /\ SK_Idle

SpecTrimMask == InitTrimMask /\ [][NextTrimMask]_vars

InitSampleSet == CE_Idle /\ CM_Idle /\ IM_Idle /\ SM_Idle /\ AW_Idle /\ TM_Idle /\ SS_Init /\ TA_Idle /\ AA_Idle /\ SK_Idle

SpecSampleSet == InitSampleSet /\ [][NextSampleSet]_vars

InitTokenAttribution == CE_Idle /\ CM_Idle /\ IM_Idle /\ SM_Idle /\ AW_Idle /\ TM_Idle /\ SS_Idle /\ TA_Init /\ AA_Idle /\ SK_Idle

SpecTokenAttribution == InitTokenAttribution /\ [][NextTokenAttribution]_vars

InitTokenRecords == CE_Idle /\ CM_Idle /\ IM_Idle /\ SM_Idle /\ AW_Idle /\ TM_Idle /\ SS_Idle /\ TA_InitRecords /\ AA_Idle /\ SK_Idle

SpecTokenRecords == InitTokenRecords /\ [][NextTokenAttribution]_vars

InitTokenLayers == CE_Idle /\ CM_Idle /\ IM_Idle /\ SM_Idle /\ AW_Idle /\ TM_Idle /\ SS_Idle /\ TA_InitLayers /\ AA_Idle /\ SK_Idle

SpecTokenLayers == InitTokenLayers /\ [][NextTokenAttribution]_vars

InitAttribution == CE_Idle /\ CM_Idle /\ IM_Idle /\ SM_Idle /\ AW_Idle /\ TM_Idle /\ SS_Idle /\ TA_Idle /\ AA_Init /\ SK_Idle

SpecAttribution == InitAttribution /\ [][NextAttribution]_vars

InitSkew == CE_Idle /\ CM_Idle /\ IM_Idle /\ SM_Idle /\ AW_Idle /\ TM_Idle /\ SS_Idle /\ TA_Idle /\ AA_Idle /\ SK_Init

SpecSkew == InitSkew /\ [][NextSkew]_vars

====
